---- MODULE Spec2Model ----
(***************************************************************************)
(* State-machine model of the Amazon review scraper:                       *)
(*   - cookie_extractor.py: get_credentials, automated_login and           *)
(*     extract_amazon_cookies (the authentication automaton);              *)
(*   - scrape.py: AmazonReviewsScraper.search_products (product            *)
(*     discovery).                                                         *)
(* The browser is the environment: every query of the page (is_visible,    *)
(* count, text_content, goto, ...) is answered nondeterministically, and   *)
(* an answer may be an exception.                                          *)
(***************************************************************************)
EXTENDS Integers, Sequences, FiniteSets, TLC

VARIABLES
    \* ---- cookie_extractor.py ----
    pc,                 \* position in extract_amazon_cookies / automated_login
    requested,          \* the auto_login argument of extract_amazon_cookies
    auto_login,         \* local auto_login (cleared when credentials fail)
    cred_source,        \* "none" | "env" | "prompt": where get_credentials read from
    env_set,            \* both AMAZON_EMAIL and AMAZON_PASSWORD were set when read
    email,              \* local email
    password,           \* local password
    login_successful,   \* local login_successful
    verdict,            \* which return statement of automated_login was taken
    calls,              \* number of invocations of automated_login
    trace,              \* page interactions started by automated_login, in order
    page_title,         \* page_title read after the homepage load
    current_url,        \* current_url read after the sign-in step
    sign_in_clicked,    \* locals of automated_login
    email_entered,
    continue_clicked,
    password_entered,
    signin_clicked,
    step,               \* candidate list of the last selector loop that ran
    probe,              \* the page's answers to that loop's candidates
    res,                \* what that loop did: found, index, queried, acted
    chal,               \* the page's answers to the challenge candidates
    greeting,           \* account_text accepted by the verification
    manual_entries,     \* times the manual-completion path was entered
    manual_confirmed,   \* the user pressed Enter in the manual path
    cookies_saved,      \* times amazon_cookies.json was written
    cookie_file,        \* amazon_cookies.json: absent, truncated or complete
    \* ---- scrape.py: search_products ----
    spc,                \* position in search_products
    max_products,       \* argument max_products
    sel_probe,          \* the page's answers to the result-container candidates
    sel_res,            \* what the result_selector loop did
    result_selector,    \* index of the accepted candidate, 0 for None
    product_cards,      \* elements returned by locator(result_selector).all()
    products,           \* the returned list
    search_outcome,     \* which return statement of search_products was taken
    \* ---- the selector-fallback loops, applied to one list and one page ----
    r_loop,             \* which loop of the program
    r_ans,              \* the page's answers to the candidates of that loop
    r_out,              \* what the loop did (NoResult before it ran)
    \* ---- scrape.py: scrape_reviews for one product ----
    hpc,                \* position in scrape_reviews
    h_product,          \* argument product
    h_max_pages,        \* argument max_pages
    page_num,           \* loop variable page_num
    fetched,            \* page numbers passed to page.goto, in order
    h_url,              \* page.url after the last navigation
    h_reviews,          \* local reviews (the returned list)
    page_log,           \* how each requested page ended
    \* ---- scrape.py: run ----
    rpc,                \* position in run
    run_max_products,   \* argument max_products
    run_max_pages,      \* argument max_pages
    browser,            \* self.browser is set
    run_products,       \* local products
    prod_idx,           \* rank of the product the loop is at
    self_reviews,       \* self.reviews
    run_events,         \* calls made by run, in order
    files,              \* files written by save_to_csv / save_to_json
    harvests,           \* per scrape_reviews call: the site met, how its pages ended
    run_result,         \* how run ended: "returned" or "raised"
    \* ---- scrape.py: the text parsers, applied to one text ----
    p_in,               \* the argument, as the pieces it is made of
    p_fn,               \* which parser was applied ("none" before)
    p_out,              \* what it returned
    \* ---- main.py and user_interface.py ----
    cfg_pc,             \* position in main / get_configuration
    args,               \* the Namespace of parse_command_line
    config,             \* the dictionary being built, then returned to main
    scraper,            \* main created the AmazonReviewsScraper
    exit_status,        \* "running", or why the program left through SystemExit
    bad_inputs          \* which missing or invalid inputs the program has met

loginVars == <<pc, requested, auto_login, cred_source, env_set, email, password,
               login_successful, verdict, calls, trace, page_title, current_url,
               sign_in_clicked, email_entered, continue_clicked, password_entered,
               signin_clicked, step, probe, res, chal, greeting, manual_entries,
               manual_confirmed, cookies_saved, cookie_file>>

searchVars == <<spc, max_products, sel_probe, sel_res, result_selector,
                product_cards, products, search_outcome>>

resolverVars == <<r_loop, r_ans, r_out>>

harvestVars == <<hpc, h_product, h_max_pages, page_num, fetched, h_url, h_reviews,
                 page_log>>

runVars == <<rpc, run_max_products, run_max_pages, browser, run_products, prod_idx,
             self_reviews, run_events, files, harvests, run_result>>

parseVars == <<p_in, p_fn, p_out>>

configVars == <<cfg_pc, args, config, scraper, exit_status, bad_inputs>>

nonLoginVars ==
    <<searchVars, resolverVars, harvestVars, runVars, configVars, parseVars>>
nonSearchVars ==
    <<loginVars, resolverVars, harvestVars, runVars, configVars, parseVars>>
nonResolverVars ==
    <<loginVars, searchVars, harvestVars, runVars, configVars, parseVars>>
nonHarvestVars ==
    <<loginVars, searchVars, resolverVars, runVars, configVars, parseVars>>
nonRunVars ==
    <<loginVars, searchVars, resolverVars, harvestVars, configVars, parseVars>>
nonConfigVars ==
    <<loginVars, searchVars, resolverVars, harvestVars, runVars, parseVars>>

nonParseVars ==
    <<loginVars, searchVars, resolverVars, harvestVars, runVars, configVars>>

vars == <<loginVars, searchVars, resolverVars, harvestVars, runVars, parseVars,
          configVars>>

(***************************************************************************)
(* Texts are sequences of one-character strings, so that Python's `in`     *)
(* (substring) and str.lower are computed, not assumed.                    *)
(***************************************************************************)
None == <<"None">>          \* Python None (no one-character text equals it)

Truthy(t) == t # None /\ t # <<>>

\* Python `m in t` for strings.
Contains(t, m) ==
    \E i \in 1..(Len(t) - Len(m) + 1) : SubSeq(t, i, i + Len(m) - 1) = m

\* str.lower on one character: a letter A-Z gives its lower-case letter, every
\* other character of the modelled texts (all ASCII) is unchanged.
LowerChar(c) ==
    LET lower == [A |-> "a", B |-> "b", C |-> "c", D |-> "d", E |-> "e", F |-> "f",
                  G |-> "g", H |-> "h", I |-> "i", J |-> "j", K |-> "k", L |-> "l",
                  M |-> "m", N |-> "n", O |-> "o", P |-> "p", Q |-> "q", R |-> "r",
                  S |-> "s", T |-> "t", U |-> "u", V |-> "v", W |-> "w", X |-> "x",
                  Y |-> "y", Z |-> "z"]
    IN  IF c \in DOMAIN lower THEN lower[c] ELSE c

Lower(t) == [i \in 1..Len(t) |-> LowerChar(t[i])]

Range(s) == {s[i] : i \in 1..Len(s)}

\* The concatenation of a sequence of sequences.
RECURSIVE Concat(_)
Concat(seqs) == IF seqs = <<>> THEN <<>> ELSE Head(seqs) \o Concat(Tail(seqs))

\* White space of str.strip and of \s in the modelled texts.
IsSpace(c) == c \in {" ", "\t", "\n"}

\* String literals of cookie_extractor.py.
LoginWord ==
    [ sorry |-> <<"s", "o", "r", "r", "y">>,
      error |-> <<"e", "r", "r", "o", "r">>,
      signin |-> <<"s", "i", "g", "n", "i", "n">>,
      ap |-> <<"a", "p", "/">>,
      Hello |-> <<"H", "e", "l", "l", "o">>,
      Hi |-> <<"H", "i">> ]

\* Texts the environment supplies to the cookie extractor: environment
\* variables, typed input, page titles, URLs, account texts.
LoginText ==
    [ HelloAl |-> <<"H", "e", "l", "l", "o", ",", " ", "A", "l">>,
      HiAl |-> <<"H", "i", " ", "A", "l">>,
      hello |-> <<"h", "e", "l", "l", "o">>,
      Account |-> <<"A", "c", "c", "o", "u", "n", "t">>,
      Amazon |-> <<"A", "m", "a", "z", "o", "n">>,
      SorryTitle |-> <<"S", "o", "r", "r", "y", "!">>,
      ErrorTitle |-> <<"5", "0", "3", " ", "E", "R", "R", "O", "R">>,
      SignInOnly |-> <<"/", "s", "i", "g", "n", "i", "n">>,
      ApOnly |-> <<"/", "a", "p", "/", "c", "v", "f">>,
      Home |-> <<"/", "r", "e", "f", "=", "n", "a", "v">>,
      EmailEnv |-> <<"a", "@", "e">>,
      EmailTyped |-> <<"a", "@", "t">>,
      PasswordEnv |-> <<"p", "e">>,
      PasswordTyped |-> <<"p", "t">> ]

\* String literals of scrape.py.
ScrapeWord ==
    [ Unknown |-> <<"U", "n", "k", "n", "o", "w", "n">>,
      Anonymous |-> <<"A", "n", "o", "n", "y", "m", "o", "u", "s">>,
      out_of |-> <<"o", "u", "t", " ", "o", "f">>,
      five |-> <<"5">>,
      star |-> <<"s", "t", "a", "r">>,
      peopl |-> <<"p", "e", "o", "p", "l">>,
      e |-> <<"e">>,
      found |-> <<"f", "o", "u", "n", "d">>,
      Reviewed_in |-> <<"R", "e", "v", "i", "e", "w", "e", "d", " ", "i", "n">>,
      on |-> <<"o", "n">>,
      ap_signin |-> <<"a", "p", "/", "s", "i", "g", "n", "i", "n">>,
      signin |-> <<"s", "i", "g", "n", "i", "n">> ]

\* Texts the pages supply to the scraper: ASINs, titles, review fields, URLs.
PageText ==
    [ B01 |-> <<"B", "0", "1">>,
      B02 |-> <<"B", "0", "2">>,
      B03 |-> <<"B", "0", "3">>,
      Bag |-> <<" ", "B", "a", "g", " ">>,
      Tote |-> <<"T", "o", "t", "e">>,
      Al |-> <<" ", "A", "l", " ">>,
      Rating45 |-> <<"4", ".", "5", " ", "o", "u", "t", " ", "o", "f", " ", "5">>,
      DateMay |-> <<"R", "e", "v", "i", "e", "w", "e", "d", " ", "i", "n", " ", "U",
            "S", " ", "o", "n", " ", "M", "a", "y", " ", "1">>,
      Body |-> <<" ", "o", "k", " ">>,
      Helpful |-> <<"2", " ", "p", "e", "o", "p", "l", "e", " ", "f", "o", "u", "n",
            "d">>,
      Reviews |-> <<"/", "p", "r", "/", "B">>,
      SigninCap |-> <<"/", "S", "i", "g", "n", "i", "n">>,
      SignInOnly |-> <<"/", "s", "i", "g", "n", "i", "n">>,
      ApOnly |-> <<"/", "a", "p", "/", "c", "v", "f">> ]

(***************************************************************************)
(* cookie_extractor.py: candidate lists of automated_login                 *)
(***************************************************************************)
sign_in_selectors ==
    <<"#nav-link-accountList", "a[href*='signin']", "#nav-signin-tooltip a",
      ".nav-signin-tooltip a">>

email_selectors ==
    <<"#ap_email", "input[name='email']", "input[type='email']", "#ap_email_login">>

continue_selectors == <<"#continue", "input[id='continue']", "button[type='submit']">>

password_selectors ==
    <<"#ap_password", "input[name='password']", "input[type='password']">>

signin_selectors ==
    <<"#signInSubmit", "input[id='signInSubmit']", "button[type='submit']",
      "#auth-signin-button">>

captcha_selectors ==
    <<"#auth-captcha-image", "[name='cvf_captcha_input']", ".cvf-captcha-img",
      "#captchacharacters">>

twofa_selectors ==
    <<"#auth-mfa-form", "[name='otpCode']", "#auth-mfa-otpcode", ".cvf-challenge-form">>

error_selectors == <<".a-alert-error", "#auth-error-message-box", ".auth-error-message">>

account_selectors ==
    <<"#nav-link-accountList-nav-line-1", "#nav-link-accountList span", ".nav-line-1">>

(***************************************************************************)
(* The page's answer to one candidate of an actionable loop                *)
(* (is_visible, then click or clear+fill):                                 *)
(*   "absent"  is_visible() returns False                                  *)
(*   "error"   is_visible() raises                                         *)
(*   "stuck"   is_visible() returns True and the action on it raises       *)
(*   "ready"   is_visible() returns True and the action completes          *)
(***************************************************************************)
ProbeOutcome == {"absent", "error", "stuck", "ready"}

NoResult ==
    [found |-> FALSE, index |-> 0, queried |-> <<>>, acted |-> <<>>, raised |-> FALSE]

\* for selector in sels: try: if visible: act; flag = True; break / except: continue
RECURSIVE TryFrom(_, _, _, _, _)
TryFrom(sels, ans, i, queried, acted) ==
    IF i > Len(sels)
    THEN [found |-> FALSE, index |-> 0, queried |-> queried, acted |-> acted,
          raised |-> FALSE]
    ELSE LET a == ans[sels[i]]
             q == Append(queried, i)
         IN  CASE a = "ready" ->
                    [found |-> TRUE, index |-> i, queried |-> q,
                     acted |-> Append(acted, i), raised |-> FALSE]
               [] a = "stuck" -> TryFrom(sels, ans, i + 1, q, Append(acted, i))
               [] OTHER -> TryFrom(sels, ans, i + 1, q, acted)

Resolve(sels, ans) == TryFrom(sels, ans, 1, <<>>, <<>>)

\* The interaction `ev` enters the trace when the loop started it on some element.
Started(ev, r) == IF r.acted = <<>> THEN <<>> ELSE <<ev>>

(***************************************************************************)
(* Challenge checks: `for selector in sels: if await ...is_visible():      *)
(* return False`, with no try/except around the query.  The page after the *)
(* submit shows a set of challenge candidates (chal[s] is "visible" or     *)
(* "hidden"); a transport error is an event of a query: the k-th query of  *)
(* a check raises (k = 0: none does).                                      *)
(***************************************************************************)
RECURSIVE ScanFrom(_, _, _, _)
ScanFrom(sels, page, k, i) ==
    IF i > Len(sels) THEN "clear"
    ELSE IF i = k THEN "raise"
    ELSE IF page[sels[i]] = "visible" THEN "visible"
    ELSE ScanFrom(sels, page, k, i + 1)

\* Mutant: the first candidate of a challenge list is never looked at.
Scan_SkipFirst(sels, page, k) == ScanFrom(sels, page, k, 2)

Scan(sels, page, k) == ScanFrom(sels, page, k, 1)

ChallengeSelectors ==
    Range(captcha_selectors) \cup Range(twofa_selectors) \cup Range(error_selectors)

ChallengePage(V) ==
    [s \in ChallengeSelectors |-> IF s \in V THEN "visible" ELSE "hidden"]

AnyVisible(sels, page) == \E i \in 1..Len(sels) : page[sels[i]] = "visible"

(***************************************************************************)
(* Login verification: the page's answer to an account-greeting candidate. *)
(***************************************************************************)

GreetingTexts == {None, <<>>, LoginText.HelloAl, LoginText.HiAl, LoginText.hello, LoginText.Account}

AccountAnswers ==
    {[state |-> s, text |-> None] : s \in {"hidden", "raise", "unreadable"}}
        \cup {[state |-> "visible", text |-> t] : t \in GreetingTexts}

\* if account_text and ("Hello" in account_text or "Hi" in account_text)
\* Mutant: any non-empty greeting text counts as logged in.
HasMarker_AnyText(t) == Truthy(t)

HasMarker(t) == Truthy(t) /\ (Contains(t, LoginWord.Hello) \/ Contains(t, LoginWord.Hi))

\* for selector in account_selectors: try: if visible: text = ...; if marker:
\* return True / except: continue
RECURSIVE VerifyFrom(_, _, _, _)
VerifyFrom(sels, ans, i, read) ==
    IF i > Len(sels) THEN [ok |-> FALSE, index |-> 0, text |-> None, read |-> read]
    ELSE LET a == ans[sels[i]]
         IN  IF a.state = "visible" /\ HasMarker(a.text)
             THEN [ok |-> TRUE, index |-> i, text |-> a.text, read |-> TRUE]
             ELSE VerifyFrom(sels, ans, i + 1,
                             read \/ a.state \in {"visible", "unreadable"})

VerifyScan(sels, ans) == VerifyFrom(sels, ans, 1, FALSE)

(***************************************************************************)
(* Page titles and URLs the browser may report.                            *)
(***************************************************************************)

TitlePool == {LoginText.Amazon, LoginText.SorryTitle, LoginText.ErrorTitle}

\* Mutant: only "sorry" marks an error page.
IsErrorTitle_SorryOnly(t) == Contains(Lower(t), LoginWord.sorry)

\* "sorry" in page_title.lower() or "error" in page_title.lower()
IsErrorTitle(t) == Contains(Lower(t), LoginWord.sorry) \/ Contains(Lower(t), LoginWord.error)

UrlPool == {LoginText.SignInOnly, LoginText.ApOnly, LoginText.Home}

\* not ("signin" not in current_url and "ap/" not in current_url)
IsSignInUrl(u) == Contains(u, LoginWord.signin) \/ Contains(u, LoginWord.ap)

(***************************************************************************)
(* cookie_extractor.py: get_credentials                                    *)
(***************************************************************************)
\* str.strip
RECURSIVE Strip(_)
Strip(t) ==
    IF t = <<>> THEN t
    ELSE IF IsSpace(Head(t)) THEN Strip(Tail(t))
    ELSE IF IsSpace(t[Len(t)]) THEN Strip(SubSeq(t, 1, Len(t) - 1))
    ELSE t

\* What os.getenv('AMAZON_EMAIL'), os.getenv('AMAZON_PASSWORD'), input(...) and
\* getpass(...) may give.
CredentialPool ==
    [ env_email |-> {None, <<>>, LoginText.EmailEnv},
      env_password |-> {None, <<>>, LoginText.PasswordEnv},
      typed_email |-> {<<>>, <<" ">>, LoginText.EmailTyped,
                       <<" ">> \o LoginText.EmailTyped},
      typed_password |-> {<<>>, <<" ">>, LoginText.PasswordTyped} ]

\* Mutant: the prompt is used whatever the environment holds.
get_credentials_PromptOnly(env_e, env_p, in_e, in_p) ==
    IF ~Truthy(Strip(in_e)) \/ ~Truthy(Strip(in_p))
    THEN [raised |-> TRUE, source |-> "prompt", email |-> None, password |-> None]
    ELSE [raised |-> FALSE, source |-> "prompt", email |-> Strip(in_e),
          password |-> Strip(in_p)]

get_credentials(env_e, env_p, in_e, in_p) ==
    IF Truthy(env_e) /\ Truthy(env_p)
    THEN [raised |-> FALSE, source |-> "env", email |-> env_e, password |-> env_p]
    ELSE IF ~Truthy(Strip(in_e)) \/ ~Truthy(Strip(in_p))
    THEN [raised |-> TRUE, source |-> "prompt", email |-> None, password |-> None]
    ELSE [raised |-> FALSE, source |-> "prompt", email |-> Strip(in_e),
          password |-> Strip(in_p)]

(***************************************************************************)
(* cookie_extractor.py: extract_amazon_cookies and automated_login         *)
(***************************************************************************)
credVars == <<requested, auto_login, cred_source, env_set, email, password>>
flagVars == <<sign_in_clicked, email_entered, continue_clicked, password_entered,
              signin_clicked>>
loopVars == <<step, probe, res>>
readVars == <<page_title, current_url>>
wrapVars == <<manual_entries, manual_confirmed, cookies_saved, cookie_file>>

\* `return True` / `return False` of automated_login, assigned at line 381.
Return(v) ==
    /\ pc' = "after_login"
    /\ verdict' = v
    /\ login_successful' = (v = "success")

Goto(next) == pc' = next /\ UNCHANGED <<verdict, login_successful>>

\* The blocks of automated_login in the order of the function body.
StepOrder ==
    <<"home", "signin", "check_url", "email", "continue", "password", "submit",
      "response", "captcha", "twofa", "errors", "verify">>

\* Mutant: the password block placed before the continue block.
Succ_PasswordFirst(here) ==
    CASE here = "email" -> "password"
      [] here = "password" -> "continue"
      [] here = "continue" -> "submit"
      [] OTHER -> LET i == CHOOSE j \in 1..Len(StepOrder) : StepOrder[j] = here
                  IN  StepOrder[i + 1]

Succ(here) ==
    LET i == CHOOSE j \in 1..Len(StepOrder) : StepOrder[j] = here IN StepOrder[i + 1]

\* `if not email_entered: ... return False` and its like after every action loop.
\* Mutant: the `return False` after a loop is missing.
StepExit_NoHalt(r, here, failure) == Goto(Succ(here))

StepExit(r, here, failure) == IF r.found THEN Goto(Succ(here)) ELSE Return(failure)

\* The three challenge loops: a visible candidate returns False at once, an
\* exception of a query leaves through the handler of line 293.
\* Mutant: a visible challenge candidate is logged but the function goes on.
ChallengeExit_NoReturn(d, here, v) ==
    IF d = "raise" THEN Return("exception") ELSE Goto(Succ(here))

ChallengeExit(d, here, v) ==
    CASE d = "visible" -> Return(v)
      [] d = "raise" -> Return("exception")
      [] OTHER -> Goto(Succ(here))

\* Lines 305-312.
GetCredentials ==
    /\ pc = "start"
    /\ \E req \in BOOLEAN, env_e \in CredentialPool.env_email,
          env_p \in CredentialPool.env_password,
          in_e \in CredentialPool.typed_email,
          in_p \in CredentialPool.typed_password :
          LET c == get_credentials(env_e, env_p, in_e, in_p)
          IN  /\ requested' = req
              /\ auto_login' = (req /\ ~c.raised)
              /\ cred_source' = IF req THEN c.source ELSE "none"
              /\ env_set' = (req /\ Truthy(env_e) /\ Truthy(env_p))
              /\ email' = IF req THEN c.email ELSE None
              /\ password' = IF req THEN c.password ELSE None
    /\ pc' = "launch"
    /\ UNCHANGED <<verdict, login_successful, calls, trace, readVars, flagVars,
                   loopVars, chal, greeting, wrapVars, nonLoginVars>>

\* Lines 314-376: browser, context and page are created; a failure propagates.
LaunchBrowser ==
    /\ pc = "launch"
    /\ \E ok \in BOOLEAN : pc' = IF ok THEN "dispatch" ELSE "crashed"
    /\ UNCHANGED <<credVars, verdict, login_successful, calls, trace, readVars,
                   flagVars, loopVars, chal, greeting, wrapVars, nonLoginVars>>

\* Line 380: if auto_login and email and password
\* Mutant: the automaton is invoked whatever was requested or obtained.
ShouldAutoLogin_Always == TRUE

ShouldAutoLogin == auto_login /\ Truthy(email) /\ Truthy(password)

\* Lines 378-381.
Dispatch ==
    /\ pc = "dispatch"
    /\ IF ShouldAutoLogin
       THEN /\ calls' = calls + 1
            /\ pc' = "home"
            /\ UNCHANGED <<verdict, login_successful>>
       ELSE /\ calls' = calls
            /\ pc' = "after_login"
            /\ login_successful' = FALSE
            /\ UNCHANGED verdict
    /\ UNCHANGED <<credVars, trace, readVars, flagVars, loopVars, chal, greeting,
                   wrapVars, nonLoginVars>>

\* Lines 82-97.
Home ==
    /\ pc = "home"
    /\ trace' = Append(trace, "goto_home")
    /\ \E nav \in {"ok", "raise"}, t \in TitlePool :
          IF nav = "raise"
          THEN page_title' = None /\ Return("exception")
          ELSE /\ page_title' = t
               /\ IF IsErrorTitle(t) THEN Return("homepage_error")
                                    ELSE Goto(Succ("home"))
    /\ UNCHANGED <<credVars, calls, current_url, flagVars, loopVars, chal, greeting,
                   wrapVars, nonLoginVars>>

\* Lines 99-131.
SignIn ==
    /\ pc = "signin"
    /\ \E ans \in [Range(sign_in_selectors) -> ProbeOutcome], nav \in {"ok", "raise"} :
          LET r == Resolve(sign_in_selectors, ans)
          IN  /\ step' = "sign_in" /\ probe' = ans /\ res' = r
              /\ sign_in_clicked' = r.found
              /\ IF r.found
                 THEN /\ trace' = Append(trace, "click_signin")
                      /\ Goto(Succ("signin"))
                 ELSE /\ trace' = trace \o Started("click_signin", r) \o <<"goto_signin">>
                      /\ IF nav = "raise" THEN Return("signin_nav_error")
                                          ELSE Goto(Succ("signin"))
    /\ UNCHANGED <<credVars, calls, readVars, email_entered, continue_clicked,
                   password_entered, signin_clicked, chal, greeting, wrapVars,
                   nonLoginVars>>

\* Lines 133-138.
CheckUrl ==
    /\ pc = "check_url"
    /\ \E u \in UrlPool :
          /\ current_url' = u
          /\ IF IsSignInUrl(u) THEN Goto(Succ("check_url"))
                              ELSE Return("not_signin_page")
    /\ UNCHANGED <<credVars, calls, trace, page_title, flagVars, loopVars, chal,
                   greeting, wrapVars, nonLoginVars>>

\* Lines 140-159.
EnterEmail ==
    /\ pc = "email"
    /\ \E ans \in [Range(email_selectors) -> ProbeOutcome] :
          LET r == Resolve(email_selectors, ans)
          IN  /\ step' = "email" /\ probe' = ans /\ res' = r
              /\ trace' = trace \o Started("fill_email", r)
              /\ email_entered' = r.found
              /\ StepExit(r, "email", "no_email_field")
    /\ UNCHANGED <<credVars, calls, readVars, sign_in_clicked, continue_clicked,
                   password_entered, signin_clicked, chal, greeting, wrapVars,
                   nonLoginVars>>

\* Lines 161-179.
ClickContinue ==
    /\ pc = "continue"
    /\ \E ans \in [Range(continue_selectors) -> ProbeOutcome] :
          LET r == Resolve(continue_selectors, ans)
          IN  /\ step' = "continue" /\ probe' = ans /\ res' = r
              /\ trace' = trace \o Started("click_continue", r)
              /\ continue_clicked' = r.found
              /\ StepExit(r, "continue", "no_continue_button")
    /\ UNCHANGED <<credVars, calls, readVars, sign_in_clicked, email_entered,
                   password_entered, signin_clicked, chal, greeting, wrapVars,
                   nonLoginVars>>

\* Lines 181-201; the wait of line 185 is outside the loop's try.
EnterPassword ==
    /\ pc = "password"
    /\ \E wait \in {"ok", "raise"} :
          IF wait = "raise"
          THEN /\ Return("exception")
               /\ UNCHANGED <<trace, password_entered, loopVars>>
          ELSE \E ans \in [Range(password_selectors) -> ProbeOutcome] :
               LET r == Resolve(password_selectors, ans)
               IN  /\ step' = "password" /\ probe' = ans /\ res' = r
                   /\ trace' = trace \o Started("fill_password", r)
                   /\ password_entered' = r.found
                   /\ StepExit(r, "password", "no_password_field")
    /\ UNCHANGED <<credVars, calls, readVars, sign_in_clicked, email_entered,
                   continue_clicked, signin_clicked, chal, greeting, wrapVars,
                   nonLoginVars>>

\* Lines 203-221.
ClickSubmit ==
    /\ pc = "submit"
    /\ \E ans \in [Range(signin_selectors) -> ProbeOutcome] :
          LET r == Resolve(signin_selectors, ans)
          IN  /\ step' = "signin" /\ probe' = ans /\ res' = r
              /\ trace' = trace \o Started("click_submit", r)
              /\ signin_clicked' = r.found
              /\ StepExit(r, "submit", "no_signin_button")
    /\ UNCHANGED <<credVars, calls, readVars, sign_in_clicked, email_entered,
                   continue_clicked, password_entered, chal, greeting, wrapVars,
                   nonLoginVars>>

\* Line 224: the wait for the page that answers the submit.  The sign-in form
\* and its answers are gone.
AwaitResponse ==
    /\ pc = "response"
    /\ \E wait \in {"ok", "raise"} :
          IF wait = "raise" THEN Return("exception") ELSE Goto(Succ("response"))
    /\ step' = "challenge" /\ probe' = <<>> /\ res' = NoResult
    /\ UNCHANGED <<credVars, calls, trace, readVars, flagVars, chal, greeting,
                   wrapVars, nonLoginVars>>

\* Lines 226-237.  The page that answered the submit is fixed here and stays the
\* same for the three checks.
CheckCaptcha ==
    /\ pc = "captcha"
    /\ trace' = Append(trace, "check_captcha")
    /\ \E V \in SUBSET ChallengeSelectors, k \in 0..Len(captcha_selectors) :
          /\ chal' = ChallengePage(V)
          /\ ChallengeExit(Scan(captcha_selectors, ChallengePage(V), k),
                           "captcha", "captcha")
    /\ UNCHANGED <<credVars, calls, readVars, flagVars, loopVars, greeting, wrapVars,
                   nonLoginVars>>

\* Lines 239-250.
CheckTwoFA ==
    /\ pc = "twofa"
    /\ trace' = Append(trace, "check_twofa")
    /\ \E k \in 0..Len(twofa_selectors) :
          ChallengeExit(Scan(twofa_selectors, chal, k), "twofa", "twofa")
    /\ UNCHANGED <<credVars, calls, readVars, flagVars, loopVars, chal, greeting,
                   wrapVars, nonLoginVars>>

\* Lines 252-263; a visible error candidate is read with text_content().
CheckErrors ==
    /\ pc = "errors"
    /\ \E k \in 0..Len(error_selectors), read \in {"ok", "raise"} :
          LET d == Scan(error_selectors, chal, k)
          IN  /\ trace' = trace \o <<"check_error">>
                            \o (IF d = "visible" THEN <<"read_error_text">> ELSE <<>>)
              /\ ChallengeExit(IF d = "visible" /\ read = "raise" THEN "raise" ELSE d,
                                "errors", "login_error")
    /\ UNCHANGED <<credVars, calls, readVars, flagVars, loopVars, chal, greeting,
                   wrapVars, nonLoginVars>>

\* Lines 265-291.  The wait of line 266 comes before the navigation of 269;
\* either may raise, as may the wait of 270.
VerifyLogin ==
    /\ pc = "verify"
    /\ \E nav \in {"ok", "prewait_raise", "raise"} :
          IF nav # "ok"
          THEN /\ trace' = IF nav = "prewait_raise" THEN trace
                           ELSE Append(trace, "goto_verify")
               /\ Return("exception")
               /\ UNCHANGED <<loopVars, greeting>>
          ELSE \E ans \in [Range(account_selectors) -> AccountAnswers] :
               LET v == VerifyScan(account_selectors, ans)
               IN  /\ trace' = trace \o <<"goto_verify">>
                                 \o (IF v.read THEN <<"read_greeting">> ELSE <<>>)
                   /\ step' = "account" /\ probe' = ans /\ res' = NoResult
                   /\ greeting' = v.text
                   /\ Return(IF v.ok THEN "success" ELSE "unclear")
    /\ UNCHANGED <<credVars, calls, readVars, flagVars, chal, wrapVars, nonLoginVars>>

\* The frame of automated_login is gone once it has returned.
LocalsDropped ==
    /\ page_title' = None /\ current_url' = None
    /\ sign_in_clicked' = FALSE /\ email_entered' = FALSE
    /\ continue_clicked' = FALSE /\ password_entered' = FALSE
    /\ signin_clicked' = FALSE
    /\ step' = "none" /\ probe' = <<>> /\ res' = NoResult
    /\ chal' = <<>> /\ greeting' = None

\* Line 383: if not login_successful
\* Mutant: the manual path is taken only when no automated login was asked for.
NeedsManual_Unrequested == ~login_successful /\ ~requested

NeedsManual == ~login_successful

\* Lines 383-398: the manual-completion path.
AfterLogin ==
    /\ pc = "after_login"
    /\ IF NeedsManual
       THEN /\ manual_entries' = manual_entries + 1
            /\ \E r \in {"confirmed", "goto_raises", "input_raises"} :
                  /\ manual_confirmed' = (r = "confirmed")
                  /\ pc' = IF r = "confirmed" THEN "save" ELSE "crashed"
       ELSE pc' = "save" /\ UNCHANGED <<manual_entries, manual_confirmed>>
    /\ LocalsDropped
    /\ UNCHANGED <<credVars, verdict, login_successful, calls, trace, cookies_saved,
                   cookie_file, nonLoginVars>>

\* The cookies context.cookies() may return.
CookiePool ==
    {[name |-> "session-id", value |-> <<"1", "3", "0">>],
     [name |-> "at-main", value |-> <<"A", "t", "z", "a">>]}

\* Lines 400-407: the cookies of the browser context are written to the file.
\* Nothing here is guarded.  When context.cookies() (401) or open() (404)
\* raises, extract_amazon_cookies raises and there is no file.  open() creates
\* or truncates the file before json.dump writes: when the write fails after
\* it, extract_amazon_cookies raises and the file holds a fragment of the text
\* of `cookies`.
SaveCookies ==
    /\ pc = "save"
    /\ \E outcome \in {"ok", "raises", "write_fails"} :
          CASE outcome = "ok" ->
                  /\ \E cookies \in SUBSET CookiePool :
                        cookie_file' = [state |-> "complete", cookies |-> cookies]
                  /\ cookies_saved' = cookies_saved + 1
                  /\ pc' = "post"
            [] outcome = "raises" ->
                  /\ pc' = "crashed"
                  /\ UNCHANGED <<cookies_saved, cookie_file>>
            [] outcome = "write_fails" ->
                  /\ \E cookies \in SUBSET CookiePool :
                        cookie_file' = [state |-> "partial", cookies |-> cookies]
                  /\ pc' = "crashed"
                  /\ UNCHANGED cookies_saved
    /\ UNCHANGED <<credVars, verdict, login_successful, calls, trace, readVars,
                   flagVars, loopVars, chal, greeting, manual_entries,
                   manual_confirmed, nonLoginVars>>

\* Lines 409-435: login test, review-page test (both guarded), and
\* browser.close(), which is outside every try.
PostChecks ==
    /\ pc = "post"
    /\ \E close \in {"ok", "raises"} : pc' = IF close = "ok" THEN "closed" ELSE "crashed"
    /\ UNCHANGED <<credVars, verdict, login_successful, calls, trace, readVars,
                   flagVars, loopVars, chal, greeting, wrapVars, nonLoginVars>>

LoginInit ==
    /\ pc = "start"
    /\ requested = FALSE /\ auto_login = FALSE /\ cred_source = "none"
    /\ env_set = FALSE
    /\ email = None /\ password = None
    /\ login_successful = FALSE /\ verdict = "not_run"
    /\ calls = 0 /\ trace = <<>>
    /\ page_title = None /\ current_url = None
    /\ sign_in_clicked = FALSE /\ email_entered = FALSE
    /\ continue_clicked = FALSE /\ password_entered = FALSE
    /\ signin_clicked = FALSE
    /\ step = "none" /\ probe = <<>> /\ res = NoResult
    /\ chal = <<>> /\ greeting = None
    /\ manual_entries = 0 /\ manual_confirmed = FALSE
    /\ cookies_saved = 0 /\ cookie_file = [state |-> "absent", cookies |-> {}]

LoginNext ==
    \/ GetCredentials \/ LaunchBrowser \/ Dispatch
    \/ Home \/ SignIn \/ CheckUrl \/ EnterEmail \/ ClickContinue
    \/ EnterPassword \/ ClickSubmit
    \/ AwaitResponse \/ CheckCaptcha \/ CheckTwoFA \/ CheckErrors \/ VerifyLogin
    \/ AfterLogin \/ SaveCookies \/ PostChecks

(***************************************************************************)
(* scrape.py: AmazonReviewsScraper.search_products                         *)
(***************************************************************************)
selectors ==
    <<"[data-component-type=\"s-search-result\"]", "[data-asin]:not([data-asin=\"\"])",
      ".s-result-item[data-asin]", "div.s-card-container">>

title_selectors == <<"h2 a span", "h2 span", ".a-text-normal", ".s-link-style span">>

\* The listing's answer to locator(selector).count(): 0, an exception, or > 0.
CountOutcome == {"none", "error", "some"}

\* for selector in selectors: try: if count() > 0: result_selector = selector;
\* break / except: continue
RECURSIVE CountFrom(_, _, _, _)
CountFrom(sels, ans, i, queried) ==
    IF i > Len(sels)
    THEN [found |-> FALSE, index |-> 0, queried |-> queried, acted |-> <<>>,
          raised |-> FALSE]
    ELSE IF ans[sels[i]] = "some"
    THEN [found |-> TRUE, index |-> i, queried |-> Append(queried, i), acted |-> <<>>,
          raised |-> FALSE]
    ELSE CountFrom(sels, ans, i + 1, Append(queried, i))

\* Mutant: the `break` is missing, the last matching candidate wins.
RECURSIVE LastFrom(_, _, _, _)
LastFrom(sels, ans, i, best) ==
    IF i > Len(sels)
    THEN [found |-> best > 0, index |-> best,
          queried |-> [j \in 1..Len(sels) |-> j], acted |-> <<>>, raised |-> FALSE]
    ELSE LastFrom(sels, ans, i + 1, IF ans[sels[i]] = "some" THEN i ELSE best)

ResolveCount_NoBreak(sels, ans) == LastFrom(sels, ans, 1, 0)

ResolveCount(sels, ans) == CountFrom(sels, ans, 1, <<>>)

(***************************************************************************)
(* A result container (card): its data-asin attribute, the text of the     *)
(* first element under each title candidate (Absent: count() is 0;         *)
(* Raises: count() or text_content() raises), and whether the await of     *)
(* its data-asin attribute raises.                                         *)
(***************************************************************************)
Absent == <<"Absent">>

Raises == <<"Raises">>

Card(a, ts, f) == [asin |-> a, titles |-> ts, fault |-> f]

CardPool ==
    { Card(PageText.B01, <<Absent, PageText.Bag, Absent, PageText.Tote>>, FALSE),
      Card(PageText.B02, <<Absent, Absent, Absent, Absent>>, FALSE),
      Card(PageText.B03, <<None, PageText.Tote, Absent, Absent>>, FALSE),
      Card(None, <<Raises, Absent, Absent, Absent>>, FALSE),
      Card(<<>>, <<PageText.Tote, Absent, Absent, Absent>>, FALSE),
      Card(PageText.B03, <<PageText.Tote, Absent, Absent, Absent>>, TRUE),
      Card(PageText.B02, <<Absent, Raises, PageText.Tote, Absent>>, FALSE) }

\* Bounds of the listing and of the argument.
MaxCards == 3
MaxProductsArg == 3

CardLists == UNION {[1..n -> CardPool] : n \in 1..MaxCards}

\* title = "Unknown"; for ts in title_selectors: if count() > 0: title =
\* first.text_content(); break.  The loop has no try of its own: a query
\* that raises leaves it.
RECURSIVE TitleFrom(_, _, _)
TitleFrom(titles, i, queried) ==
    IF i > Len(title_selectors)
    THEN [found |-> FALSE, index |-> 0, queried |-> queried, acted |-> <<>>,
          raised |-> FALSE]
    ELSE IF titles[i] = Raises
    THEN [found |-> FALSE, index |-> 0, queried |-> Append(queried, i), acted |-> <<>>,
          raised |-> TRUE]
    ELSE IF titles[i] # Absent
    THEN [found |-> TRUE, index |-> i, queried |-> Append(queried, i), acted |-> <<>>,
          raised |-> FALSE]
    ELSE TitleFrom(titles, i + 1, Append(queried, i))

TitleResolve(titles) == TitleFrom(titles, 1, <<>>)

\* 'title': title.strip() if title else "Unknown"
TitleOf(card) ==
    LET r == TitleResolve(card.titles)
        t == IF r.found THEN card.titles[r.index] ELSE ScrapeWord.Unknown
    IN  IF Truthy(t) THEN Strip(t) ELSE ScrapeWord.Unknown

\* Mutant: the slice is forgotten, every matched container is visited.
Slice_All(cards, n) == cards

\* product_cards[:max_products], for max_products >= 0
Slice(cards, n) == SubSeq(cards, 1, IF n < Len(cards) THEN n ELSE Len(cards))

\* An await of the card's try block raises (208-210): get_attribute of line
\* 168 (the card's fault), or a query of the title loop, which is reached
\* only past `if not asin: continue` of lines 170-171.
Faulty(card) ==
    card.fault \/ (Truthy(card.asin) /\ TitleResolve(card.titles).raised)

\* Mutant: the ASIN test is missing.
Yields_AnyAsin(card) == ~Faulty(card)

\* A card yields a Product when its try block runs to products.append.  The
\* ASIN test comes before the title loop.
Yields(card) == Truthy(card.asin) /\ ~Faulty(card)

\* for i, card in enumerate(...): asin missing -> continue; exception -> continue;
\* else append {'asin', 'title', ..., 'position': i + 1}
RECURSIVE ExtractFrom(_, _, _)
ExtractFrom(cards, i, acc) ==
    IF i > Len(cards) THEN acc
    ELSE IF Yields(cards[i])
    THEN ExtractFrom(cards, i + 1,
                     Append(acc, [asin |-> cards[i].asin, title |-> TitleOf(cards[i]),
                                  position |-> i]))
    ELSE ExtractFrom(cards, i + 1, acc)

ExtractProducts(cards, n) == ExtractFrom(Slice(cards, n), 1, <<>>)

\* What the caller of search_products receives on each of its return
\* statements: `return []` (lines 160, 222, 225) or `return products` (217);
\* nothing when the call raises.
ReturnValue(outcome, prods) == IF outcome = "ok" THEN prods ELSE <<>>

\* The handlers of lines 219-225 for an exception of kind `raised` in the try
\* block: a PlaywrightTimeoutError takes the screenshot of line 221 and
\* returns [], and when that screenshot raises the exception leaves
\* search_products; any other exception returns [].
Handled(raised, shot221) ==
    IF raised = "timeout" THEN (IF shot221 = "ok" THEN "timeout" ELSE "raised")
    ELSE "error"

\* Lines 130-160: navigation and the result_selector loop; with no match the
\* screenshot of line 159 is taken inside the try block.
FindResults ==
    /\ spc = "goto"
    /\ \E nav \in {"ok", "timeout", "error"} :
          IF nav # "ok"
          THEN /\ \E shot221 \in {"ok", "raises"} : search_outcome' = Handled(nav, shot221)
               /\ spc' = IF search_outcome' = "raised" THEN "raised" ELSE "done"
               /\ UNCHANGED <<sel_probe, sel_res, result_selector>>
          ELSE \E ans \in [Range(selectors) -> CountOutcome] :
               LET r == ResolveCount(selectors, ans)
               IN  /\ sel_probe' = ans /\ sel_res' = r
                   /\ result_selector' = r.index
                   /\ IF r.found
                      THEN search_outcome' = "none" /\ spc' = "extract"
                      ELSE \E shot159 \in {"ok", "timeout", "error"}, shot221 \in {"ok", "raises"} :
                           /\ search_outcome' =
                                 IF shot159 = "ok" THEN "no_results"
                                 ELSE Handled(shot159, shot221)
                           /\ spc' = IF search_outcome' = "raised" THEN "raised" ELSE "done"
    /\ products' = ReturnValue(search_outcome', <<>>)
    /\ UNCHANGED <<max_products, product_cards, nonSearchVars>>

\* Lines 162-217: the per-card loop over locator(result_selector).all(); with
\* no product the screenshot of line 215 is taken inside the try block.  The
\* answers to the candidate queries are not read again.
CollectProducts ==
    /\ spc = "extract"
    /\ \E all \in {"ok", "timeout", "error"} :
          IF all # "ok"
          THEN /\ \E shot221 \in {"ok", "raises"} : search_outcome' = Handled(all, shot221)
               /\ products' = ReturnValue(search_outcome', <<>>)
               /\ UNCHANGED product_cards
          ELSE \E cards \in CardLists :
               LET found == ExtractProducts(cards, max_products)
               IN  /\ product_cards' = cards
                   /\ IF found # <<>>
                      THEN search_outcome' = "ok"
                      ELSE \E shot215 \in {"ok", "timeout", "error"}, shot221 \in {"ok", "raises"} :
                           search_outcome' = IF shot215 = "ok" THEN "ok"
                                             ELSE Handled(shot215, shot221)
                   /\ products' = ReturnValue(search_outcome', found)
    /\ sel_probe' = <<>>
    /\ spc' = IF search_outcome' = "raised" THEN "raised" ELSE "done"
    /\ UNCHANGED <<max_products, sel_res, result_selector, nonSearchVars>>

SearchInit ==
    /\ spc = "goto"
    /\ max_products \in 1..MaxProductsArg
    /\ sel_probe = <<>> /\ sel_res = NoResult /\ result_selector = 0
    /\ product_cards = <<>> /\ products = <<>> /\ search_outcome = "none"

SearchNext == FindResults \/ CollectProducts

(***************************************************************************)
(* scrape.py: the review-container loops of scrape_reviews (detection) and *)
(* of _extract_reviews_from_page (extraction).  Neither has a try/except   *)
(* of its own: an exception of count() or all() leaves the loop.           *)
(***************************************************************************)
review_selectors == <<"[data-hook=\"review\"]", "div.review", "[id*=\"customer_review\"]">>

page_review_selectors ==
    <<"[data-hook=\"review\"]", "div[id*=\"customer_review\"]", ".review",
      "div.a-section.review">>

\* for selector in sels: if count() > 0 (or all() non-empty): ...; break
\* The query may raise a PlaywrightTimeoutError ("timeout") or another
\* exception ("error"); either leaves the loop.
RECURSIVE BareFrom(_, _, _, _)
BareFrom(sels, ans, i, queried) ==
    IF i > Len(sels)
    THEN [found |-> FALSE, index |-> 0, queried |-> queried, acted |-> <<>>,
          raised |-> FALSE]
    ELSE LET q == Append(queried, i)
         IN  CASE ans[sels[i]] = "some" ->
                    [found |-> TRUE, index |-> i, queried |-> q, acted |-> <<>>,
                     raised |-> FALSE]
               [] ans[sels[i]] \in {"error", "timeout"} ->
                    [found |-> FALSE, index |-> 0, queried |-> q, acted |-> <<>>,
                     raised |-> TRUE]
               [] OTHER -> BareFrom(sels, ans, i + 1, q)

ResolveBare(sels, ans) == BareFrom(sels, ans, 1, <<>>)

(***************************************************************************)
(* scrape.py: the text parsers applied to the fields of a review.  A float *)
(* is kept exactly: its integer part and its fraction digits without       *)
(* trailing zeros.                                                         *)
(***************************************************************************)
Digits == {"0", "1", "2", "3", "4", "5", "6", "7", "8", "9"}

DigitVal(c) ==
    CASE c = "0" -> 0 [] c = "1" -> 1 [] c = "2" -> 2 [] c = "3" -> 3
      [] c = "4" -> 4 [] c = "5" -> 5 [] c = "6" -> 6 [] c = "7" -> 7
      [] c = "8" -> 8 [] c = "9" -> 9

\* int() of a digit string
RECURSIVE IntOf(_)
IntOf(d) == IF d = <<>> THEN 0 ELSE 10 * IntOf(SubSeq(d, 1, Len(d) - 1)) + DigitVal(d[Len(d)])

\* First position >= i of text that does not satisfy the class (Len + 1 if none).
RECURSIVE SkipDigits(_, _)
SkipDigits(t, i) == IF i <= Len(t) /\ t[i] \in Digits THEN SkipDigits(t, i + 1) ELSE i

RECURSIVE SkipSpace(_, _)
SkipSpace(t, i) == IF i <= Len(t) /\ IsSpace(t[i]) THEN SkipSpace(t, i + 1) ELSE i

RECURSIVE DropZeros(_)
DropZeros(d) ==
    IF d # <<>> /\ d[Len(d)] = "0" THEN DropZeros(SubSeq(d, 1, Len(d) - 1)) ELSE d

Zero == [units |-> 0, frac |-> <<>>]

\* float() of a text matched by \d+\.?\d*
Float(g) ==
    LET e == SkipDigits(g, 1)
    IN  [units |-> IntOf(SubSeq(g, 1, e - 1)),
         frac |-> IF e <= Len(g) THEN DropZeros(SubSeq(g, e + 1, Len(g))) ELSE <<>>]

\* The tail of a pattern: "ws" is \s+, "lit" a literal, "opt" an optional
\* literal.  Returns the position after the match, 0 when there is none.
Ws == [k |-> "ws", s |-> <<>>]
Lit(w) == [k |-> "lit", s |-> w]
Opt(w) == [k |-> "opt", s |-> w]

LitAt(t, i, w) == i + Len(w) - 1 <= Len(t) /\ SubSeq(t, i, i + Len(w) - 1) = w

RECURSIVE MatchTail(_, _, _, _)
MatchTail(t, i, toks, n) ==
    IF n > Len(toks) THEN i
    ELSE CASE toks[n].k = "ws" ->
                 IF i <= Len(t) /\ IsSpace(t[i])
                 THEN MatchTail(t, SkipSpace(t, i), toks, n + 1) ELSE 0
           [] toks[n].k = "lit" ->
                 IF LitAt(t, i, toks[n].s)
                 THEN MatchTail(t, i + Len(toks[n].s), toks, n + 1) ELSE 0
           [] toks[n].k = "opt" ->
                 IF LitAt(t, i, toks[n].s)
                 THEN MatchTail(t, i + Len(toks[n].s), toks, n + 1)
                 ELSE MatchTail(t, i, toks, n + 1)

\* End of the number \d+\.?\d* (frac TRUE) or \d+ (frac FALSE) starting at i.
NumberEnd(t, i, frac) ==
    LET e1 == SkipDigits(t, i)
    IN  IF frac /\ e1 <= Len(t) /\ t[e1] = "." THEN SkipDigits(t, e1 + 1) ELSE e1

\* re.search(r'(<number>)<tail>', t): group 1 of the leftmost match, None
\* when the pattern does not occur.
RECURSIVE SearchNumber(_, _, _, _)
SearchNumber(t, i, frac, toks) ==
    IF i > Len(t) THEN None
    ELSE IF t[i] \in Digits /\ MatchTail(t, NumberEnd(t, i, frac), toks, 1) # 0
    THEN SubSeq(t, i, NumberEnd(t, i, frac) - 1)
    ELSE SearchNumber(t, i + 1, frac, toks)

\* _extract_rating_from_stars
extract_rating_from_stars(text) ==
    IF ~Truthy(text) THEN Zero
    ELSE LET m1 == SearchNumber(text, 1, TRUE, <<Ws, Lit(ScrapeWord.out_of), Ws, Lit(ScrapeWord.five)>>)
             m2 == SearchNumber(text, 1, TRUE, <<Ws, Lit(ScrapeWord.star)>>)
         IN  IF m1 # None THEN Float(m1)
             ELSE IF m2 # None THEN Float(m2) ELSE Zero

\* _extract_rating
extract_rating(rating_text) ==
    IF ~Truthy(rating_text) THEN Zero
    ELSE LET m == SearchNumber(rating_text, 1, TRUE, <<Ws, Lit(ScrapeWord.out_of)>>)
         IN  IF m # None THEN Float(m) ELSE Zero

\* _extract_helpful_votes
extract_helpful_votes(text) ==
    IF ~Truthy(text) THEN 0
    ELSE LET m == SearchNumber(text, 1, FALSE,
                               <<Ws, Lit(ScrapeWord.peopl), Opt(ScrapeWord.e), Ws, Lit(ScrapeWord.found)>>)
         IN  IF m # None THEN IntOf(m) ELSE 0

\* One match of r'Reviewed in.*?on\s+' at position i: the position after it, 0
\* when there is none.  `.` does not match a newline; `.*?` takes the first
\* "on" that is followed by white space.
RECURSIVE LazyOn(_, _)
LazyOn(t, j) ==
    IF j > Len(t) THEN 0
    ELSE IF MatchTail(t, j, <<Lit(ScrapeWord.on), Ws>>, 1) # 0
    THEN MatchTail(t, j, <<Lit(ScrapeWord.on), Ws>>, 1)
    ELSE IF t[j] = "\n" THEN 0
    ELSE LazyOn(t, j + 1)

PrefaceEnd(t, i) ==
    IF LitAt(t, i, ScrapeWord.Reviewed_in) THEN LazyOn(t, i + Len(ScrapeWord.Reviewed_in)) ELSE 0

\* re.sub(r'Reviewed in.*?on\s+', '', t)
RECURSIVE SubPreface(_, _, _)
SubPreface(t, i, acc) ==
    IF i > Len(t) THEN acc
    ELSE IF PrefaceEnd(t, i) # 0 THEN SubPreface(t, PrefaceEnd(t, i), acc)
    ELSE SubPreface(t, i + 1, Append(acc, t[i]))

\* _clean_date
clean_date(date_text) ==
    IF ~Truthy(date_text) THEN <<>> ELSE Strip(SubPreface(date_text, 1, <<>>))

(***************************************************************************)
(* scrape.py: _extract_reviews_from_page, the per-element loop.  A field   *)
(* of a review element answers with Absent (count() is 0), with the text   *)
(* of text_content(), with None, or with Raises (the query raises).        *)
(***************************************************************************)
Element(rv, rt, dt, ct, vf, hp) ==
    [reviewer |-> rv, rating |-> rt, date |-> dt, content |-> ct, verified |-> vf,
     helpful |-> hp]

ElementPool ==
    { Element(PageText.Al, PageText.Rating45, PageText.DateMay, PageText.Body, TRUE, PageText.Helpful),
      Element(Absent, Absent, Absent, Absent, FALSE, Absent),
      Element(Raises, PageText.Rating45, PageText.DateMay, PageText.Body, TRUE, PageText.Helpful),
      Element(PageText.Al, None, None, None, FALSE, None) }

\* x = await elem.text_content() if await elem.count() > 0 else default
FieldOr(answer, default) == IF answer = Absent THEN default ELSE answer

\* The try block of an element raises: a query raises, or .strip() is called
\* on the None that text_content() returned for reviewer or content.
Dropped(el) ==
    \/ Raises \in {el.reviewer, el.rating, el.date, el.content, el.helpful}
    \/ FieldOr(el.reviewer, ScrapeWord.Anonymous) = None
    \/ FieldOr(el.content, <<>>) = None

\* Review(product_id=asin, ...).  `origin` is not a field of the program's
\* Review: it records the product rank, page and element the review came from.
MakeReview(asin, product_title, el, origin) ==
    [product_id |-> asin,
     product_title |-> product_title,
     reviewer |-> Strip(FieldOr(el.reviewer, ScrapeWord.Anonymous)),
     rating |-> extract_rating_from_stars(FieldOr(el.rating, <<>>)),
     date |-> clean_date(FieldOr(el.date, <<>>)),
     verified_purchase |-> el.verified,
     content |-> Strip(FieldOr(el.content, <<>>)),
     helpful_votes |-> extract_helpful_votes(FieldOr(el.helpful, <<>>)),
     origin |-> origin]

\* for element in review_elements: try: ...; reviews.append(review)
\* except Exception: continue
RECURSIVE ReviewsFrom(_, _, _, _, _, _)
ReviewsFrom(asin, product_title, els, rank, page, i) ==
    IF i > Len(els) THEN <<>>
    ELSE (IF Dropped(els[i]) THEN <<>>
          ELSE <<MakeReview(asin, product_title, els[i], <<rank, page, i>>)>>)
         \o ReviewsFrom(asin, product_title, els, rank, page, i + 1)

\* "signin" in self.page.url.lower() or "ap/signin" in self.page.url
ReviewUrlPool == {PageText.Reviews, PageText.SignInOnly, PageText.SigninCap, PageText.ApOnly}

IsLoginPage(u) == Contains(Lower(u), ScrapeWord.signin) \/ Contains(u, ScrapeWord.ap_signin)

(***************************************************************************)
(* scrape.py: scrape_reviews, one product.  The page loop is taken step by *)
(* step: navigation, container detection, the candidates of                *)
(* _extract_reviews_from_page, the elements.                               *)
(***************************************************************************)
\* Bounds: the argument max_pages and the review elements all pages of one
\* product carry together.
MaxPagesArg == 3
MaxReviewElems == 3

HarvestProducts == {[asin |-> PageText.B01, title |-> PageText.Tote, position |-> 1]}

\* Review elements matched so far on the product's pages.
RECURSIVE Matched(_)
Matched(log) == IF log = <<>> THEN 0 ELSE Head(log).matched + Matched(Tail(log))

ElementLists(n) == UNION {[1..k -> ElementPool] : k \in 1..n}

LogEntry(class, matched, emitted) ==
    [page |-> page_num, class |-> class, redirect |-> FALSE, matched |-> matched,
     emitted |-> emitted]

\* Mutant: a page without containers is skipped instead of ending the harvest.
EndsHarvest_SkipEmpty(class) == class \in {"timeout", "error"}

\* The `break` statements of the page loop (277, 290, 293).
EndsHarvest(class) == class \in {"timeout", "error", "no_reviews"}

\* Mutant: the range runs one page too far.
MorePages_OneMore(n, max_pages) == n <= max_pages

\* for page_num in range(1, max_pages + 1): is there a page after page n?
MorePages(n, max_pages) == n < max_pages

\* The end of one iteration of the page loop.
PageDone(entry, page_reviews) ==
    /\ page_log' = Append(page_log, entry)
    /\ h_reviews' = h_reviews \o page_reviews
    /\ IF EndsHarvest(entry.class) \/ ~MorePages(page_num, h_max_pages)
       THEN hpc' = "done" /\ page_num' = page_num
       ELSE hpc' = "goto" /\ page_num' = page_num + 1

\* Lines 244-258: the URL of page page_num and page.goto.
HarvestGoto ==
    /\ hpc = "goto"
    /\ fetched' = Append(fetched, page_num)
    /\ \E nav \in {"ok", "timeout", "error"} :
          IF nav = "ok"
          THEN /\ h_url' \in ReviewUrlPool
               /\ hpc' = "detect"
               /\ UNCHANGED <<page_num, h_reviews, page_log>>
          ELSE /\ PageDone(LogEntry(nav, 0, 0), <<>>)
               /\ h_url' = None
    /\ UNCHANGED <<h_product, h_max_pages, nonHarvestVars>>

\* Lines 260-277: the container detection.  An exception of count() (269) is
\* handled at 288-293 by its kind; with no container the debug screenshot of
\* line 276 is awaited before the break, inside the same try.
HarvestDetect ==
    /\ hpc = "detect"
    /\ \E det \in [Range(review_selectors) -> CountOutcome \cup {"timeout"}] :
          LET r == ResolveBare(review_selectors, det)
              here == [LogEntry("none", 0, 0) EXCEPT !.redirect = IsLoginPage(h_url)]
          IN  IF r.found
              THEN hpc' = "extract" /\ UNCHANGED <<page_num, h_reviews, page_log>>
              ELSE IF r.raised
              THEN PageDone([here EXCEPT !.class =
                                det[review_selectors[Len(r.queried)]]], <<>>)
              ELSE \E shot276 \in {"ok", "timeout", "error"} :
                   PageDone([here EXCEPT !.class = IF shot276 = "ok" THEN "no_reviews"
                                                   ELSE shot276], <<>>)
    /\ UNCHANGED <<h_product, h_max_pages, fetched, h_url, nonHarvestVars>>

\* Lines 280 and 297-328: the login-page check, with its debug screenshot
\* (304) awaited before the return, and the candidates of
\* _extract_reviews_from_page; with no element the "no reviews" message is
\* counted (325).  An exception of any of these awaits leaves
\* _extract_reviews_from_page and is handled at 288-293 by its kind.
HarvestExtract ==
    /\ hpc = "extract"
    /\ LET here == [LogEntry("none", 0, 0) EXCEPT !.redirect = IsLoginPage(h_url)]
       IN  IF IsLoginPage(h_url)
           THEN \E shot304 \in {"ok", "timeout", "error"} :
                PageDone([here EXCEPT !.class = IF shot304 = "ok" THEN "session_invalid"
                                                ELSE shot304], <<>>)
           ELSE \E ext \in [Range(page_review_selectors) -> CountOutcome \cup {"timeout"}] :
                LET r == ResolveBare(page_review_selectors, ext)
                IN  /\ r.found => Matched(page_log) < MaxReviewElems
                    /\ IF r.found
                       THEN hpc' = "parse"
                            /\ UNCHANGED <<page_num, h_reviews, page_log>>
                       ELSE IF r.raised
                       THEN PageDone([here EXCEPT !.class =
                                         ext[page_review_selectors[Len(r.queried)]]], <<>>)
                       ELSE \E msg \in {"counted", "timeout", "error"} :
                            PageDone([here EXCEPT !.class =
                                         IF msg = "counted" THEN "no_elements"
                                         ELSE msg], <<>>)
    /\ UNCHANGED <<h_product, h_max_pages, fetched, h_url, nonHarvestVars>>

\* Lines 330-376 and 281-286: the per-element loop and reviews.extend.
HarvestParse ==
    /\ hpc = "parse"
    /\ \E els \in ElementLists(MaxReviewElems - Matched(page_log)) :
          LET page_reviews == ReviewsFrom(h_product.asin, h_product.title, els,
                                          h_product.position, page_num, 1)
          IN  PageDone(LogEntry("parsed", Len(els), Len(page_reviews)), page_reviews)
    /\ UNCHANGED <<h_product, h_max_pages, fetched, h_url, nonHarvestVars>>

HarvestInit ==
    /\ hpc = "goto"
    /\ h_product \in HarvestProducts
    /\ h_max_pages \in 1..MaxPagesArg
    /\ page_num = 1
    /\ fetched = <<>> /\ h_url = None /\ h_reviews = <<>> /\ page_log = <<>>

HarvestIdle ==
    /\ hpc = "idle" /\ h_product = None /\ h_max_pages = 0 /\ page_num = 0
    /\ fetched = <<>> /\ h_url = None /\ h_reviews = <<>> /\ page_log = <<>>

HarvestNext == HarvestGoto \/ HarvestDetect \/ HarvestExtract \/ HarvestParse

(***************************************************************************)
(* scrape.py: run.  Each call of run is one step: the whole of             *)
(* search_products and the whole of scrape_reviews are computed from what  *)
(* the site answers during the call.                                       *)
(***************************************************************************)
\* What one review page answers: the navigation, page.url, the two candidate
\* lists, the count of the "no reviews" message, the matched elements, and
\* the debug screenshot (276 or 304) when one is taken.
PageAnswer(nav, url, det, ext, msg, els, shot) ==
    [nav |-> nav, url |-> url, det |-> det, ext |-> ext, msg |-> msg, els |-> els,
     shot |-> shot]

\* One iteration of the page loop of scrape_reviews (244-293) with its call of
\* _extract_reviews_from_page (297-376): how the page ends and its Reviews.
PageResult(product, rank, n, pg) ==
    LET d == ResolveBare(review_selectors, pg.det)
        e == ResolveBare(page_review_selectors, pg.ext)
        end(class) == [class |-> class, reviews |-> <<>>]
    IN  IF pg.nav # "ok" THEN end(pg.nav)
        ELSE IF d.raised THEN end(pg.det[review_selectors[Len(d.queried)]])
        ELSE IF ~d.found THEN end(IF pg.shot = "ok" THEN "no_reviews" ELSE pg.shot)
        ELSE IF IsLoginPage(pg.url)
        THEN end(IF pg.shot = "ok" THEN "session_invalid" ELSE pg.shot)
        ELSE IF e.raised THEN end(pg.ext[page_review_selectors[Len(e.queried)]])
        ELSE IF ~e.found
        THEN end(IF pg.msg = "counted" THEN "no_elements" ELSE pg.msg)
        ELSE [class |-> "parsed",
              reviews |-> ReviewsFrom(product.asin, product.title, pg.els, rank, n, 1)]

\* scrape_reviews(product, star_filter, max_pages) on a site that answers
\* page n with site[n]: the returned list.
RECURSIVE ScrapeFrom(_, _, _, _, _, _)
\* Mutant: a page that times out or fails discards what the earlier pages gave.
ScrapeFrom_DropOnFailure(product, rank, max_pages, site, n, acc) ==
    LET r == PageResult(product, rank, n, site[n])
    IN  IF r.class \in {"timeout", "error"} THEN <<>>
        ELSE IF EndsHarvest(r.class) \/ ~MorePages(n, max_pages) THEN acc \o r.reviews
        ELSE ScrapeFrom(product, rank, max_pages, site, n + 1, acc \o r.reviews)

ScrapeFrom(product, rank, max_pages, site, n, acc) ==
    LET r == PageResult(product, rank, n, site[n])
    IN  IF EndsHarvest(r.class) \/ ~MorePages(n, max_pages) THEN acc \o r.reviews
        ELSE ScrapeFrom(product, rank, max_pages, site, n + 1, acc \o r.reviews)

scrape_reviews(product, rank, max_pages, site) ==
    ScrapeFrom(product, rank, max_pages, site, 1, <<>>)

\* How the pages that scrape_reviews requests end, in order: the page loop of
\* lines 244-293 without the reviews.
RECURSIVE PagesFrom(_, _, _, _, _)
PagesFrom(product, rank, max_pages, site, n) ==
    LET r == PageResult(product, rank, n, site[n])
    IN  IF EndsHarvest(r.class) \/ ~MorePages(n, max_pages) THEN <<r.class>>
        ELSE <<r.class>> \o PagesFrom(product, rank, max_pages, site, n + 1)

\* search_products(keyword, max_products) on a listing l that answers the
\* navigation with l.nav, the candidates with l.ans, .all() with l.all and
\* the cards, and the debug screenshots with l.shot (159, 215) and l.shot221:
\* which return statement is taken, or "raised".
SearchOutcome(l, cards, n) ==
    IF l.nav # "ok" THEN Handled(l.nav, l.shot221)
    ELSE IF ~ResolveCount(selectors, l.ans).found
    THEN (IF l.shot = "ok" THEN "no_results" ELSE Handled(l.shot, l.shot221))
    ELSE IF l.all # "ok" THEN Handled(l.all, l.shot221)
    ELSE IF ExtractProducts(cards, n) = <<>> /\ l.shot # "ok"
    THEN Handled(l.shot, l.shot221)
    ELSE "ok"

\* The list the caller receives (nothing when the call raised).
search_products(l, cards, n) ==
    ReturnValue(SearchOutcome(l, cards, n), ExtractProducts(cards, n))

\* Bound of the listing a run meets.
MaxRunCards == 2

RunCardLists == UNION {[1..n -> CardPool] : n \in 1..MaxRunCards}

\* The review sites a run meets; page n of a site is SitePage(name, n).
SiteNames == {"two_pages", "empty", "timeout", "drops", "redirect", "locked"}

SitePage(name, n) ==
    LET NoMatch(sels) == [x \in Range(sels) |-> "none"]
        FirstMatch(sels) == [x \in Range(sels) |-> IF x = sels[1] THEN "some" ELSE "none"]
        FullElement == Element(PageText.Al, PageText.Rating45, PageText.DateMay,
                               PageText.Body, TRUE, PageText.Helpful)
        BareElement == Element(Absent, Absent, Absent, Absent, FALSE, Absent)
        StaleElement == Element(Raises, PageText.Rating45, PageText.DateMay,
                                PageText.Body, TRUE, PageText.Helpful)
        ParsedPage(url, els) ==
            PageAnswer("ok", url, FirstMatch(review_selectors),
                       FirstMatch(page_review_selectors), "counted", els, "ok")
        EmptyPage == PageAnswer("ok", PageText.Reviews, NoMatch(review_selectors),
                                NoMatch(page_review_selectors), "counted", <<>>, "ok")
        FailedPage(nav) == PageAnswer(nav, None, NoMatch(review_selectors),
                                      NoMatch(page_review_selectors), "counted", <<>>,
                                      "ok")
        LockedPage == PageAnswer("ok", PageText.SignInOnly, FirstMatch(review_selectors),
                                 FirstMatch(page_review_selectors), "counted",
                                 <<FullElement>>, "error")
    IN  CASE name = "two_pages" ->
                IF n <= 2
                THEN ParsedPage(PageText.Reviews, <<FullElement, BareElement>>)
                ELSE EmptyPage
          [] name = "empty" -> EmptyPage
          [] name = "timeout" -> FailedPage("timeout")
          [] name = "drops" ->
                IF n = 1
                THEN ParsedPage(PageText.Reviews, <<StaleElement, FullElement>>)
                ELSE FailedPage("error")
          [] name = "redirect" ->
                IF n = 1 THEN ParsedPage(PageText.SignInOnly, <<FullElement>>)
                ELSE IF n = 2 THEN ParsedPage(PageText.Reviews, <<BareElement>>)
                ELSE EmptyPage
          [] name = "locked" ->
                IF n = 1 THEN LockedPage
                ELSE ParsedPage(PageText.Reviews, <<FullElement, BareElement>>)

Site(name, max_pages) == [n \in 1..max_pages |-> SitePage(name, n)]

\* Mutant: the reviews of a product are put in front of the accumulated list.
Extend_Prepend(acc, new) == new \o acc

\* self.reviews.extend(reviews)
Extend(acc, new) == acc \o new

\* Mutant: a run that raised ends without close().
Finally_SkipOnRaise(result) ==
    rpc' = (IF result = "raised" THEN "closed" ELSE "close") /\ run_result' = result

\* The finally clause of run: close() is next, then run ends as `result`.
Finally(result) == rpc' = "close" /\ run_result' = result

\* Line 447 and 49-125: initialize.  It raises before self.browser is
\* assigned (launch), after it, or not at all.
Initialize ==
    /\ rpc = "initialize"
    /\ run_events' = Append(run_events, <<"initialize">>)
    /\ \E outcome \in {"ok", "raises_before_launch", "raises_after_launch"} :
          /\ browser' = (outcome # "raises_before_launch")
          /\ IF outcome = "ok"
             THEN rpc' = "search" /\ UNCHANGED run_result
             ELSE Finally("raised")
    /\ UNCHANGED <<run_max_products, run_max_pages, run_products, prod_idx,
                   self_reviews, files, harvests, nonRunVars>>

\* The result listings a run meets: what the navigation, the candidates and
\* .all() answer.
ListingNames == {"found", "no_results", "timeout", "error", "stale", "hung"}

Listing(name) ==
    LET Second == [x \in Range(selectors) |->
                     IF x = selectors[1] THEN "error"
                     ELSE IF x = selectors[2] THEN "some" ELSE "none"]
        Nothing == [x \in Range(selectors) |-> "none"]
        Answer(nav, ans, all, shot221) ==
            [nav |-> nav, ans |-> ans, all |-> all, shot |-> "ok", shot221 |-> shot221]
    IN  CASE name = "found" -> Answer("ok", Second, "ok", "ok")
          [] name = "no_results" -> Answer("ok", Nothing, "ok", "ok")
          [] name = "timeout" -> Answer("timeout", Nothing, "ok", "ok")
          [] name = "error" -> Answer("error", Nothing, "ok", "ok")
          [] name = "stale" -> Answer("ok", Second, "error", "ok")
          [] name = "hung" -> Answer("timeout", Nothing, "ok", "raises")

\* Lines 450-454: products = await self.search_products(...); no product
\* ends the run, and so does an exception that leaves search_products.
Discover ==
    /\ rpc = "search"
    /\ run_events' = Append(run_events, <<"search_products">>)
    /\ \E name \in ListingNames :
          \E cards \in IF name = "found" THEN RunCardLists ELSE {<<>>} :
             LET l == Listing(name)
                 found == search_products(l, cards, run_max_products)
             IN  /\ run_products' = found
                 /\ IF SearchOutcome(l, cards, run_max_products) = "raised"
                    THEN Finally("raised") /\ UNCHANGED prod_idx
                    ELSE IF found = <<>>
                    THEN Finally("returned") /\ UNCHANGED prod_idx
                    ELSE rpc' = "harvest" /\ prod_idx' = 1 /\ UNCHANGED run_result
    /\ UNCHANGED <<run_max_products, run_max_pages, browser, self_reviews, files,
                   harvests, nonRunVars>>

\* Lines 457-462: one iteration of the product loop.
HarvestProduct ==
    /\ rpc = "harvest"
    /\ run_events' = run_events \o <<<<"scrape_reviews", prod_idx>>,
                                     <<"returned", prod_idx>>>>
    /\ \E name \in SiteNames :
          LET site == Site(name, run_max_pages)
          IN  /\ self_reviews' =
                    Extend(self_reviews,
                           scrape_reviews(run_products[prod_idx], prod_idx,
                                          run_max_pages, site))
              /\ harvests' =
                    Append(harvests,
                           [site |-> name,
                            pages |-> PagesFrom(run_products[prod_idx], prod_idx,
                                                run_max_pages, site, 1)])
    /\ IF prod_idx < Len(run_products)
       THEN prod_idx' = prod_idx + 1 /\ rpc' = "harvest"
       ELSE prod_idx' = prod_idx /\ rpc' = "save"
    /\ UNCHANGED <<run_max_products, run_max_pages, browser, run_products, files,
                   run_result, nonRunVars>>

\* Mutant: only the first review is written.
Written_FirstOnly(name) ==
    IF self_reviews = <<>> THEN <<>>
    ELSE <<[name |-> name, state |-> "complete", reviews |-> <<Head(self_reviews)>>]>>

\* save_to_csv / save_to_json (404-436) when they return: nothing is written
\* for an empty list, else the file holds every review of the list.
Written(name) ==
    IF self_reviews = <<>> THEN <<>>
    ELSE <<[name |-> name, state |-> "complete", reviews |-> self_reviews]>>

\* Lines 464-468: the two save calls, neither of them guarded.  For an empty
\* list each returns before open().  Else open(filename, 'w') (413, 433) may
\* raise, and there is no file; it creates or truncates the file before
\* anything is written, so that a write failing after it leaves a fragment:
\* the file is cut short and holds the first n reviews of the list, for some
\* n up to its length (with all of them, only the end of the text after the
\* last review is missing).  An exception of save_to_csv leaves run before
\* save_to_json.
Persist ==
    /\ rpc = "save"
    /\ \E outcome \in {"ok", "csv_open_raises", "csv_write_fails",
                        "json_open_raises", "json_write_fails"} :
          /\ outcome # "ok" => self_reviews # <<>>
          /\ run_events' = run_events \o
                (IF outcome \in {"csv_open_raises", "csv_write_fails"}
                 THEN <<<<"save_to_csv">>>>
                 ELSE <<<<"save_to_csv">>, <<"save_to_json">>>>)
          /\ \E n \in 0..Len(self_reviews) :
                LET fragment(name) == <<[name |-> name, state |-> "partial",
                                         reviews |-> SubSeq(self_reviews, 1, n)]>>
                IN  files' =
                       CASE outcome = "ok" -> Written("csv") \o Written("json")
                         [] outcome = "csv_open_raises" -> <<>>
                         [] outcome = "csv_write_fails" -> fragment("csv")
                         [] outcome = "json_open_raises" -> Written("csv")
                         [] outcome = "json_write_fails" ->
                               Written("csv") \o fragment("json")
          /\ Finally(IF outcome = "ok" THEN "returned" ELSE "raised")
    /\ UNCHANGED <<run_max_products, run_max_pages, browser, run_products, prod_idx,
                   self_reviews, harvests, nonRunVars>>

\* Lines 470-471 and 438-441: finally: await self.close().
Close ==
    /\ rpc = "close"
    /\ run_events' = Append(run_events, <<"close">>)
    /\ IF browser
       THEN \E outcome \in {"ok", "raises"} :
               /\ browser' = browser
               /\ run_result' = IF outcome = "raises" THEN "raised" ELSE run_result
       ELSE UNCHANGED <<browser, run_result>>
    /\ rpc' = "closed"
    /\ UNCHANGED <<run_max_products, run_max_pages, run_products, prod_idx,
                   self_reviews, files, harvests, nonRunVars>>

RunInit ==
    /\ rpc = "initialize"
    /\ run_max_products \in {1, MaxRunCards}
    /\ run_max_pages \in {1, MaxPagesArg}
    /\ browser = FALSE
    /\ run_products = <<>> /\ prod_idx = 0 /\ self_reviews = <<>>
    /\ run_events = <<>> /\ files = <<>> /\ harvests = <<>> /\ run_result = "none"

RunIdle ==
    /\ rpc = "idle" /\ run_max_products = 0 /\ run_max_pages = 0 /\ browser = FALSE
    /\ run_products = <<>> /\ prod_idx = 0 /\ self_reviews = <<>>
    /\ run_events = <<>> /\ files = <<>> /\ harvests = <<>> /\ run_result = "none"

RunNext == Initialize \/ Discover \/ HarvestProduct \/ Persist \/ Close

(***************************************************************************)
(* scrape.py: each text parser applied to one text.  The text is put       *)
(* together from at most MaxPieces pieces.                                 *)
(***************************************************************************)
MaxPieces == 3

Piece ==
    [ n45 |-> <<"4", ".", "5">>,
      n3 |-> <<"3">>,
      n9 |-> <<"9">>,
      out_of_5 |-> <<" ", "o", "u", "t", " ", "o", "f", " ", "5">>,
      stars |-> <<" ", "s", "t", "a", "r", "s">>,
      star |-> <<" ", "s", "t", "a", "r">>,
      people_found |-> <<" ", "p", "e", "o", "p", "l", "e", " ", "f", "o", "u", "n", "d">>,
      person_found |-> <<" ", "p", "e", "r", "s", "o", "n", " ", "f", "o", "u", "n", "d">>,
      One |-> <<"O", "n", "e">>,
      Reviewed_in_US_on |-> <<"R", "e", "v", "i", "e", "w", "e", "d", " ", "i", "n", " ", "U", "S", " ", "o", "n", " ">>,
      Reviewed |-> <<"R", "e", "v", "i", "e", "w", "e", "d", " ">>,
      in_US_on_May_1 |-> <<"i", "n", " ", "U", "S", " ", "o", "n", " ", "M", "a", "y", " ", "1">>,
      May_1 |-> <<"M", "a", "y", " ", "1", " ">> ]

PieceNames == DOMAIN Piece

TextOf(pieces) == Concat([k \in 1..Len(pieces) |-> Piece[pieces[k]]])

ParseInputs == UNION {[1..n -> PieceNames] : n \in 0..MaxPieces}

Applied(fn, out) ==
    /\ p_fn = "none"
    /\ p_fn' = fn
    /\ p_out' = out
    /\ UNCHANGED <<p_in, nonParseVars>>

ApplyExtractRating == Applied("extract_rating", extract_rating(TextOf(p_in)))

ApplyExtractRatingFromStars ==
    Applied("extract_rating_from_stars", extract_rating_from_stars(TextOf(p_in)))

ApplyExtractHelpfulVotes ==
    Applied("extract_helpful_votes", extract_helpful_votes(TextOf(p_in)))

ApplyCleanDate == Applied("clean_date", clean_date(TextOf(p_in)))

ParseInit == p_in \in ParseInputs /\ p_fn = "none" /\ p_out = <<>>

ParseIdle == p_in = <<>> /\ p_fn = "idle" /\ p_out = <<>>

ParseNext ==
    \/ ApplyExtractRating \/ ApplyExtractRatingFromStars
    \/ ApplyExtractHelpfulVotes \/ ApplyCleanDate

(***************************************************************************)
(* main.py and user_interface.py: the configuration is read from the       *)
(* command line or from the prompts, then main creates the scraper and     *)
(* calls run.  sys.exit and an argparse usage error leave the program.     *)
(***************************************************************************)
\* String literals of user_interface.py and the texts a user may supply.
ConfigText ==
    [ all |-> <<"a", "l", "l">>,
      positive |-> <<"p", "o", "s", "i", "t", "i", "v", "e">>,
      critical |-> <<"c", "r", "i", "t", "i", "c", "a", "l">>,
      Positive |-> <<"P", "o", "s", "i", "t", "i", "v", "e">>,
      All |-> <<"A", "l", "l">>,
      good |-> <<"g", "o", "o", "d">>,
      bag |-> <<"b", "a", "g">>,
      y |-> <<"y">>, yes |-> <<"y", "e", "s">>, one |-> <<"1">>, true |-> <<"t", "r", "u", "e">>,
      Y |-> <<"Y">>, n |-> <<"n">>,
      zero |-> <<"0">>, two |-> <<"2">>, minus_one |-> <<"-", "1">>, x |-> <<"x">>,
      ten |-> <<"1", "_", "0">>, not_ten |-> <<"1", "_", "_", "0">>,
      cookies |-> <<"a", "m", "a", "z", "o", "n", "_", "c", "o", "o", "k", "i", "e", "s", ".", "j", "s", "o", "n">>,
      my_cookies |-> <<"c", ".", "j", "s", "o", "n">> ]

\* STAR_FILTERS.keys()
StarFilterKeys ==
    {<<"5">>, <<"4">>, <<"3">>, <<"2">>, <<"1">>, ConfigText.positive,
     ConfigText.critical}

\* int(text): an optional sign and decimal digits, with single underscores
\* allowed between digits ('1_0' is 10) and white space around the whole
\* ignored; anything else raises ValueError.
ParseInt(t) ==
    LET v == Strip(t)
        signed == v # <<>> /\ v[1] \in {"-", "+"}
        body == IF signed THEN Tail(v) ELSE v
        ok == /\ body # <<>>
              /\ \A i \in 1..Len(body) : body[i] \in Digits \cup {"_"}
              /\ body[1] # "_" /\ body[Len(body)] # "_"
              /\ \A i \in 1..(Len(body) - 1) : ~(body[i] = "_" /\ body[i + 1] = "_")
        digits == SelectSeq(body, LAMBDA c : c # "_")
    IN  [ok |-> ok,
         value |-> IF ~ok THEN 0
                   ELSE IF v[1] = "-" THEN 0 - IntOf(digits) ELSE IntOf(digits)]

\* What the command line may hold for each option (None: option not given).
ArgPool ==
    [ keyword |-> {None, <<>>, <<" ">>, ConfigText.bag},
      star_filter |-> {None, <<"5">>, ConfigText.all, ConfigText.good},
      max_products |-> {None, ConfigText.zero, ConfigText.two, ConfigText.x,
                        ConfigText.ten},
      max_pages |-> {None, ConfigText.minus_one, <<"1">>},
      cookies_file |-> {None, ConfigText.my_cookies} ]

NoArgs == [interactive |-> FALSE, keyword |-> None, star_filter |-> None,
           max_products |-> 0, max_pages |-> 0, headless |-> FALSE,
           cookies_file |-> None]

NoConfig == [keyword |-> None, star_filter |-> None, max_products |-> 0,
             max_pages |-> 0, headless |-> FALSE, cookies_file |-> None]

\* parse_command_line (103-131) for the values of --interactive, --keyword,
\* --star-filter, --max-products, --max-pages, --headless and --cookies-file:
\* choices of --star-filter, type=int and the defaults; a value argparse
\* rejects is a usage error (SystemExit).
parse_command_line(i, k, st, p, g, h, c) ==
    LET mp == IF p = None THEN [ok |-> TRUE, value |-> 3] ELSE ParseInt(p)
        pg == IF g = None THEN [ok |-> TRUE, value |-> 2] ELSE ParseInt(g)
    IN  [error |-> \/ st \notin {None, ConfigText.all} \cup StarFilterKeys
                   \/ ~mp.ok \/ ~pg.ok,
         args |-> [interactive |-> i, keyword |-> k, star_filter |-> st,
                   max_products |-> mp.value, max_pages |-> pg.value,
                   headless |-> h,
                   cookies_file |-> IF c = None THEN ConfigText.cookies ELSE c]]

\* sys.exit(1) and argparse's exit: the program ends here.
Exit(why) == cfg_pc' = "exited" /\ exit_status' = why

\* Lines 143-148: which of the two tests on the command-line numbers fails.
Rejected(a) ==
    IF a.max_products <= 0 THEN "bad_max_products"
    ELSE IF a.max_pages <= 0 THEN "bad_max_pages"
    ELSE "none"

\* Lines 136-140: parse, then the choice between the prompts and the
\* command-line values.  With --interactive or without a keyword the prompts
\* are used and no command-line value is read again.  bad_inputs records what
\* the command line lacked or held wrongly: a value argparse rejects, no
\* keyword although --interactive was not given, a number below 1 that the
\* prompts leave unread, a number below 1 that line 143 or 146 will test.
ParseCommandLine ==
    /\ cfg_pc = "parse"
    /\ \E i \in BOOLEAN, k \in ArgPool.keyword, st \in ArgPool.star_filter,
          p \in ArgPool.max_products, g \in ArgPool.max_pages, h \in BOOLEAN,
          c \in ArgPool.cookies_file :
          LET a == parse_command_line(i, k, st, p, g, h, c)
          IN  IF a.error
              THEN /\ Exit("usage") /\ args' = NoArgs
                   /\ bad_inputs' = {"usage"}
              ELSE IF a.args.interactive \/ ~Truthy(a.args.keyword)
              THEN /\ cfg_pc' = "ask_keyword"
                   /\ args' = NoArgs
                   /\ bad_inputs' =
                         (IF a.args.interactive THEN {} ELSE {"no_keyword"})
                         \cup (IF Rejected(a.args) # "none" THEN {"unread_number"}
                               ELSE {})
                   /\ UNCHANGED exit_status
              ELSE /\ cfg_pc' = "validate"
                   /\ args' = a.args
                   /\ bad_inputs' =
                         IF Rejected(a.args) # "none" THEN {"cli_number"} ELSE {}
                   /\ UNCHANGED exit_status
    /\ UNCHANGED <<config, scraper, nonConfigVars>>

\* Lines 141-158: the command-line values are validated and returned.
Validate ==
    /\ cfg_pc = "validate"
    /\ IF Rejected(args) # "none"
       THEN Exit(Rejected(args)) /\ UNCHANGED <<args, config>>
       ELSE /\ config' = [keyword |-> args.keyword,
                          star_filter |-> IF args.star_filter # ConfigText.all
                                          THEN args.star_filter ELSE None,
                          max_products |-> args.max_products,
                          max_pages |-> args.max_pages,
                          headless |-> args.headless,
                          cookies_file |-> args.cookies_file]
            /\ args' = NoArgs
            /\ cfg_pc' = "returned"
            /\ UNCHANGED exit_status
    /\ UNCHANGED <<scraper, bad_inputs, nonConfigVars>>

\* Lines 33-36: keyword = input(...).strip(); empty is fatal.
AskKeyword ==
    /\ cfg_pc = "ask_keyword"
    /\ \E typed \in {<<>>, <<" ">>, ConfigText.bag, <<" ">> \o ConfigText.bag} :
          IF ~Truthy(Strip(typed))
          THEN /\ Exit("empty_keyword") /\ UNCHANGED config
               /\ bad_inputs' = bad_inputs \cup {"typed_keyword"}
          ELSE /\ config' = [config EXCEPT !.keyword = Strip(typed)]
               /\ cfg_pc' = "ask_star"
               /\ UNCHANGED <<exit_status, bad_inputs>>
    /\ UNCHANGED <<args, scraper, nonConfigVars>>

\* Lines 49-54: 'all', nothing and an unknown key (52-54, with a warning) all
\* give None.
star_filter_of(typed) ==
    LET st == Lower(Strip(typed))
    IN  IF st = ConfigText.all \/ ~Truthy(st) THEN None
        ELSE IF st \notin StarFilterKeys THEN None
        ELSE st

AskStarFilter ==
    /\ cfg_pc = "ask_star"
    /\ \E typed \in {<<>>, ConfigText.All, ConfigText.Positive, <<"5">>, <<"6">>,
                     ConfigText.good, <<" ">> \o ConfigText.critical} :
          LET st == Lower(Strip(typed))
          IN  /\ config' = [config EXCEPT !.star_filter = star_filter_of(typed)]
              /\ bad_inputs' =
                    IF Truthy(st) /\ st \notin {ConfigText.all} \cup StarFilterKeys
                    THEN bad_inputs \cup {"typed_star_filter"} ELSE bad_inputs
    /\ cfg_pc' = "ask_products"
    /\ UNCHANGED <<args, scraper, exit_status, nonConfigVars>>

\* Mutant: zero and negative numbers are accepted.
get_positive_int_AnyInt(typed, default) ==
    LET value == Strip(typed)
    IN  IF ~Truthy(value) THEN [again |-> FALSE, value |-> default]
        ELSE IF ~ParseInt(value).ok THEN [again |-> TRUE, value |-> 0]
        ELSE [again |-> FALSE, value |-> ParseInt(value).value]

\* One pass of the loop of _get_positive_int (89-100) on one answer: the
\* value returned, or the prompt is shown again.
get_positive_int(typed, default) ==
    LET value == Strip(typed)
    IN  IF ~Truthy(value) THEN [again |-> FALSE, value |-> default]
        ELSE IF ~ParseInt(value).ok THEN [again |-> TRUE, value |-> 0]
        ELSE IF ParseInt(value).value <= 0 THEN [again |-> TRUE, value |-> 0]
        ELSE [again |-> FALSE, value |-> ParseInt(value).value]

TypedInts ==
    {<<>>, ConfigText.zero, ConfigText.minus_one, ConfigText.x,
     <<" ">> \o ConfigText.two, <<"1">>, ConfigText.ten, ConfigText.not_ten}

\* Lines 57-60.
AskMaxProducts ==
    /\ cfg_pc = "ask_products"
    /\ \E typed \in TypedInts :
          LET r == get_positive_int(typed, 3)
          IN  IF r.again
              THEN /\ bad_inputs' = bad_inputs \cup {"typed_number"}
                   /\ UNCHANGED <<cfg_pc, config>>
              ELSE /\ config' = [config EXCEPT !.max_products = r.value]
                   /\ cfg_pc' = "ask_pages"
                   /\ UNCHANGED bad_inputs
    /\ UNCHANGED <<args, scraper, exit_status, nonConfigVars>>

\* Lines 63-66.
AskMaxPages ==
    /\ cfg_pc = "ask_pages"
    /\ \E typed \in TypedInts :
          LET r == get_positive_int(typed, 2)
          IN  IF r.again
              THEN /\ bad_inputs' = bad_inputs \cup {"typed_number"}
                   /\ UNCHANGED <<cfg_pc, config>>
              ELSE /\ config' = [config EXCEPT !.max_pages = r.value]
                   /\ cfg_pc' = "ask_headless"
                   /\ UNCHANGED bad_inputs
    /\ UNCHANGED <<args, scraper, exit_status, nonConfigVars>>

\* Lines 69-84: headless, cookies file, return.
AskHeadlessAndCookies ==
    /\ cfg_pc = "ask_headless"
    /\ \E h \in {<<>>, ConfigText.Y, ConfigText.n},
          c \in {<<>>, <<" ">>, ConfigText.my_cookies} :
          config' = [config EXCEPT
                       !.headless = Lower(Strip(h)) \in
                                       {ConfigText.y, ConfigText.yes, ConfigText.one,
                                        ConfigText.true},
                       !.cookies_file = IF ~Truthy(Strip(c)) THEN ConfigText.cookies
                                        ELSE Strip(c)]
    /\ cfg_pc' = "returned"
    /\ UNCHANGED <<args, scraper, exit_status, bad_inputs, nonConfigVars>>

\* main.py 13-22: the configuration is displayed and the scraper created.
CreateScraper ==
    /\ cfg_pc = "returned"
    /\ scraper' = TRUE
    /\ cfg_pc' = "created"
    /\ UNCHANGED <<args, config, exit_status, bad_inputs, nonConfigVars>>

\* main.py 24-35: await scraper.run(keyword, star_filter, max_products,
\* max_pages) is entered with the values of the configuration: run is at its
\* first statement (rpc = "initialize") with the arguments max_products and
\* max_pages of the configuration, and its steps are those of RunNext.  The
\* keyword and the star parameter are passed on to search_products and
\* scrape_reviews, where the pages they select are drawn from the pools.
CallRun ==
    /\ cfg_pc = "created"
    /\ cfg_pc' = "run"
    /\ rpc' = "initialize"
    /\ run_max_products' = config.max_products
    /\ run_max_pages' = config.max_pages
    /\ UNCHANGED <<args, config, scraper, exit_status, bad_inputs, browser,
                   run_products, prod_idx, self_reviews, run_events, files, harvests,
                   run_result, loginVars, searchVars, resolverVars, harvestVars,
                   parseVars>>

ConfigInit ==
    /\ cfg_pc = "parse" /\ args = NoArgs /\ config = NoConfig
    /\ scraper = FALSE /\ exit_status = "running" /\ bad_inputs = {}

ConfigIdle ==
    /\ cfg_pc = "idle" /\ args = NoArgs /\ config = NoConfig
    /\ scraper = FALSE /\ exit_status = "running" /\ bad_inputs = {}

ConfigNext ==
    \/ ParseCommandLine \/ Validate
    \/ AskKeyword \/ AskStarFilter \/ AskMaxProducts \/ AskMaxPages
    \/ AskHeadlessAndCookies
    \/ CreateScraper \/ CallRun

(***************************************************************************)
(* Every selector-fallback loop of the program as a function of the page's *)
(* answers to its candidates.                                              *)
(***************************************************************************)
ActionLoops == {"sign_in", "email", "continue", "password", "signin"}
Loops == ActionLoops \cup {"results", "title", "reviews", "page_reviews"}

CandidatesOf(l) ==
    CASE l = "sign_in" -> sign_in_selectors
      [] l = "email" -> email_selectors
      [] l = "continue" -> continue_selectors
      [] l = "password" -> password_selectors
      [] l = "signin" -> signin_selectors
      [] l = "results" -> selectors
      [] l = "title" -> title_selectors
      [] l = "reviews" -> review_selectors
      [] l = "page_reviews" -> page_review_selectors

TitleAnswers == {Absent, None, Raises, PageText.Bag, PageText.Tote}

AnswersOf(l) ==
    IF l \in ActionLoops THEN [Range(CandidatesOf(l)) -> ProbeOutcome]
    ELSE IF l = "title" THEN [1..Len(title_selectors) -> TitleAnswers]
    ELSE IF l = "results" THEN [Range(selectors) -> CountOutcome]
    ELSE [Range(CandidatesOf(l)) -> CountOutcome \cup {"timeout"}]

RunLoop(l, ans) ==
    IF l \in ActionLoops THEN Resolve(CandidatesOf(l), ans)
    ELSE IF l = "results" THEN ResolveCount(selectors, ans)
    ELSE IF l = "title" THEN TitleResolve(ans)
    ELSE ResolveBare(CandidatesOf(l), ans)

ResolverInit ==
    /\ r_loop \in Loops
    /\ r_ans \in AnswersOf(r_loop)
    /\ r_out = NoResult

ResolverIdle == r_loop = "none" /\ r_ans = <<>> /\ r_out = NoResult

ApplyLoop ==
    /\ r_out = NoResult
    /\ r_loop \in Loops
    /\ r_out' = RunLoop(r_loop, r_ans)
    /\ UNCHANGED <<r_loop, r_ans, nonResolverVars>>

(***************************************************************************)
(* Specifications                                                          *)
(***************************************************************************)
\* search_products is idle while the cookie extractor runs.
SearchIdle ==
    /\ spc = "idle" /\ max_products = 0
    /\ sel_probe = <<>> /\ sel_res = NoResult /\ result_selector = 0
    /\ product_cards = <<>> /\ products = <<>> /\ search_outcome = "none"

\* The cookie extractor is a separate program: it has not run when the scraper does.
LoginIdle == LoginInit

\* The initial states of the three programs: one runs, the others stay idle.
CookieExtractorStart ==
    LoginInit /\ SearchIdle /\ ResolverIdle /\ HarvestIdle /\ RunIdle /\ ConfigIdle
    /\ ParseIdle

SearchStart == SearchInit /\ LoginIdle /\ ResolverIdle /\ HarvestIdle /\ RunIdle /\ ConfigIdle
    /\ ParseIdle

LoopStart == ResolverInit /\ LoginIdle /\ SearchIdle /\ HarvestIdle /\ RunIdle /\ ConfigIdle
    /\ ParseIdle

HarvestStart == HarvestInit /\ LoginIdle /\ SearchIdle /\ ResolverIdle /\ RunIdle /\ ConfigIdle
    /\ ParseIdle

\* run starts where CallRun enters it: main holds a configuration that
\* carries the two numbers run was given.
RunStart ==
    /\ RunInit /\ LoginIdle /\ SearchIdle /\ ResolverIdle /\ HarvestIdle /\ ParseIdle
    /\ cfg_pc = "run" /\ args = NoArgs
    /\ config = [keyword |-> ConfigText.bag, star_filter |-> None,
                 max_products |-> run_max_products, max_pages |-> run_max_pages,
                 headless |-> FALSE, cookies_file |-> ConfigText.cookies]
    /\ scraper = TRUE /\ exit_status = "running" /\ bad_inputs = {}

ConfigStart ==
    ConfigInit /\ LoginIdle /\ SearchIdle /\ ResolverIdle /\ HarvestIdle /\ RunIdle
    /\ ParseIdle

ParseStart ==
    ParseInit /\ LoginIdle /\ SearchIdle /\ ResolverIdle /\ HarvestIdle /\ RunIdle
    /\ ConfigIdle

SpecLogin == CookieExtractorStart /\ [][LoginNext]_vars

SpecSearch == SearchStart /\ [][SearchNext]_vars

SpecResolver == LoopStart /\ [][ApplyLoop]_vars

SpecHarvest == HarvestStart /\ [][HarvestNext]_vars

SpecRun == RunStart /\ [][RunNext]_vars

SpecConfig == ConfigStart /\ [][ConfigNext]_vars

SpecParse == ParseStart /\ [][ParseNext]_vars

\* Every await of run returns or raises: a step of run that can be taken is
\* taken.
SpecRunLive == RunStart /\ [][RunNext]_vars /\ WF_vars(RunNext)

(***************************************************************************)
(* Properties of the authentication automaton                              *)
(***************************************************************************)
EventOrder ==
    <<"goto_home", "click_signin", "goto_signin", "fill_email", "click_continue",
      "fill_password", "click_submit", "check_captcha", "check_twofa", "check_error",
      "read_error_text", "goto_verify", "read_greeting">>

Rank(e) == CHOOSE i \in 1..Len(EventOrder) : EventOrder[i] = e

Performed(e) == e \in Range(trace)

Last(q) == q[Len(q)]

AutomatonPcs == Range(StepOrder)

\* automated_login is running or has just returned: its locals are in the state.
InAttempt == calls = 1 /\ pc \in AutomatonPcs \cup {"after_login"}

\* The challenge page has been looked at in this attempt.
Checked == InAttempt /\ Performed("check_captcha")

FirstGroup(page) ==
    IF AnyVisible(captcha_selectors, page) THEN "captcha"
    ELSE IF AnyVisible(twofa_selectors, page) THEN "twofa"
    ELSE IF AnyVisible(error_selectors, page) THEN "login_error"
    ELSE "clear"

LoopSteps == {"sign_in", "email", "continue", "password", "signin"}

SelectorsOf(s) ==
    CASE s = "sign_in" -> sign_in_selectors
      [] s = "email" -> email_selectors
      [] s = "continue" -> continue_selectors
      [] s = "password" -> password_selectors
      [] s = "signin" -> signin_selectors

StepEvent(s) ==
    CASE s = "sign_in" -> "click_signin"
      [] s = "email" -> "fill_email"
      [] s = "continue" -> "click_continue"
      [] s = "password" -> "fill_password"
      [] s = "signin" -> "click_submit"

\* C1: the interactions of an attempt occur only in the order home, sign-in,
\* email, continue, password, submit, challenge check, verification, and a step
\* is performed only after every earlier step succeeded: no password before the
\* email was entered and continue clicked, no challenge check before the submit.
C1_StepOrder ==
    /\ \A i, j \in 1..Len(trace) : i < j => Rank(trace[i]) < Rank(trace[j])
    /\ (Performed("click_signin") \/ Performed("goto_signin")) => Performed("goto_home")
    /\ Performed("fill_email") => (Performed("click_signin") \/ Performed("goto_signin"))
    /\ Performed("click_continue") => Performed("fill_email")
    /\ Performed("fill_password") => Performed("click_continue")
    /\ Performed("click_submit") => Performed("fill_password")
    /\ Performed("check_captcha") => Performed("click_submit")
    /\ Performed("check_twofa") => Performed("check_captcha")
    /\ Performed("check_error") => Performed("check_twofa")
    /\ Performed("goto_verify") => Performed("check_error")
    /\ InAttempt =>
          /\ Performed("fill_email") => IsSignInUrl(current_url)
          /\ Performed("click_continue") => email_entered
          /\ Performed("fill_password") => (email_entered /\ continue_clicked)
          /\ Performed("click_submit") => password_entered
          /\ Performed("check_captcha") => signin_clicked

C1_Witness ==
    /\ pc = "after_login" /\ verdict = "success"
    /\ trace = <<"goto_home", "click_signin", "fill_email", "click_continue",
                 "fill_password", "click_submit", "check_captcha", "check_twofa",
                 "check_error", "goto_verify", "read_greeting">>

\* The loop of step s ended with no candidate resolved and the attempt stopped
\* there: failure is returned and nothing was done after the step's own action.
Halted(s) ==
    /\ pc = "after_login" /\ ~login_successful
    /\ \A e \in Range(trace) : Rank(e) <= Rank(StepEvent(s))

\* C2 as stated: for every step (sign-in link, email, continue, password,
\* submit), when no candidate resolves the attempt halts at once with failure,
\* with no further navigation, fill or click.
C2_HaltsOnEveryStep ==
    \A s \in LoopSteps : (InAttempt /\ step = s /\ ~res.found) => Halted(s)

\* C2 amended: the email, continue, password and submit steps halt at once with
\* failure; the sign-in link step instead navigates once to the sign-in URL and
\* goes on to the URL check, failing only if that navigation raises or the URL
\* reached is no sign-in page.
C2_HaltsExceptSignInFallback ==
    /\ \A s \in LoopSteps \ {"sign_in"} :
          (InAttempt /\ step = s /\ ~res.found) => Halted(s)
    /\ (InAttempt /\ step = "sign_in" /\ ~res.found) =>
          /\ Last(trace) = "goto_signin"
          /\ \/ pc \in {"check_url", "email"}
             \/ /\ pc = "after_login" /\ ~login_successful
                /\ verdict \in {"signin_nav_error", "not_signin_page"}

C2_Witness ==
    /\ pc = "after_login" /\ verdict = "no_password_field"
    /\ step = "password" /\ res.acted # <<>>
    /\ Last(trace) = "fill_password"

\* C3: the challenge check looks at CAPTCHA, then 2FA, then inline errors; when
\* a candidate of any group is visible the attempt fails, with the verdict of the
\* first group in that order that shows one (or through the exception handler
\* when a query raised), and success is never returned.
C3_ChallengePriority ==
    /\ (InAttempt /\ pc = "twofa") => ~AnyVisible(captcha_selectors, chal)
    /\ (InAttempt /\ pc = "errors") =>
          (~AnyVisible(captcha_selectors, chal) /\ ~AnyVisible(twofa_selectors, chal))
    /\ (InAttempt /\ pc = "verify") => FirstGroup(chal) = "clear"
    /\ (Checked /\ pc = "after_login" /\ FirstGroup(chal) # "clear") =>
          /\ ~login_successful
          /\ verdict \in {FirstGroup(chal), "exception"}
    /\ (Checked /\ verdict \in {"twofa", "login_error"}) =>
          verdict = FirstGroup(chal)

C3_Witness ==
    /\ pc = "after_login" /\ verdict = "captcha"
    /\ chal[captcha_selectors[1]] = "hidden"
    /\ AnyVisible(twofa_selectors, chal) /\ AnyVisible(error_selectors, chal)

\* C4: once a CAPTCHA or 2FA candidate has been seen the automaton does nothing
\* more on the page (no fill, click, read or re-navigation) and returns; and no
\* fill or click ever targets a CAPTCHA or 2FA candidate.
C4_NoInteractionAfterChallenge ==
    /\ (Checked /\ AnyVisible(captcha_selectors, chal)) =>
          (pc = "after_login" /\ Last(trace) = "check_captcha")
    /\ (Checked /\ Performed("check_twofa") /\ AnyVisible(twofa_selectors, chal)) =>
          (pc = "after_login" /\ Last(trace) = "check_twofa")
    /\ verdict = "captcha" => Last(trace) = "check_captcha"
    /\ verdict = "twofa" => Last(trace) = "check_twofa"
    /\ (InAttempt /\ step \in LoopSteps) =>
          \A i \in Range(res.acted) :
             SelectorsOf(step)[i] \notin
                Range(captcha_selectors) \cup Range(twofa_selectors)

C4_Witness ==
    /\ pc = "closed" /\ verdict = "twofa"
    /\ Last(trace) = "check_twofa"
    /\ manual_entries = 1

\* C5: success is returned only when every step succeeded, no challenge or
\* error candidate was visible, the landing page was loaded again after the
\* submit and a visible greeting candidate's text contains "Hello" or "Hi";
\* a verification that finds no such text returns failure (unclear).
MarkerIn(t) == t # None /\ (Contains(t, LoginWord.Hello) \/ Contains(t, LoginWord.Hi))

C5_SuccessOnlyWithGreeting ==
    pc = "after_login" =>
       /\ login_successful =>
             /\ verdict = "success" /\ calls = 1
             /\ IsSignInUrl(current_url)
             /\ email_entered /\ continue_clicked /\ password_entered /\ signin_clicked
             /\ FirstGroup(chal) = "clear"
             /\ \E i, j \in 1..Len(trace) :
                   i < j /\ trace[i] = "click_submit" /\ trace[j] = "goto_verify"
             /\ MarkerIn(greeting)
             /\ \E s \in Range(account_selectors) :
                   probe[s] = [state |-> "visible", text |-> greeting]
       /\ (step = "account"
             /\ \A s \in Range(account_selectors) :
                   probe[s].state = "visible" => ~MarkerIn(probe[s].text)) =>
             (~login_successful /\ verdict = "unclear")

C5_Witness ==
    /\ pc = "after_login" /\ login_successful
    /\ greeting = LoginText.HiAl
    /\ probe[account_selectors[1]] = [state |-> "visible", text |-> LoginText.hello]

\* C6: automated_login is invoked at most once per run, and only when automated
\* login was requested and both credentials were obtained.
C6_AtMostOneAttempt ==
    /\ calls <= 1
    /\ calls = 1 => (requested /\ auto_login /\ Truthy(email) /\ Truthy(password))
    /\ pc \in AutomatonPcs => calls = 1
    /\ calls = 0 => (trace = <<>> /\ verdict = "not_run")

C6_Witness ==
    /\ pc = "closed" /\ calls = 1 /\ ~login_successful
    /\ manual_entries = 1 /\ cred_source = "prompt"

\* C7: every failure of the automaton and every run that did not invoke it goes
\* through the manual-completion path exactly once, and the cookies are saved
\* only after the automaton succeeded or the user confirmed the manual login.
C7_ManualFallbackBeforeSave ==
    /\ manual_entries <= 1
    /\ (cookies_saved > 0 \/ cookie_file.state # "absent") =>
          ((calls = 1 /\ login_successful) \/ manual_confirmed)
    /\ pc \in {"save", "post", "closed"} =>
          /\ manual_entries = (IF calls = 1 /\ verdict = "success" THEN 0 ELSE 1)
          /\ manual_entries = 1 => manual_confirmed
    /\ pc \in {"start", "launch", "dispatch", "after_login"} \cup AutomatonPcs =>
          (manual_entries = 0 /\ cookies_saved = 0)
    /\ (pc = "crashed" /\ cookies_saved > 0) =>
          manual_entries = (IF calls = 1 /\ verdict = "success" THEN 0 ELSE 1)
    /\ cookies_saved <= 1

C7_Witness ==
    /\ pc = "closed" /\ verdict = "exception"
    /\ manual_entries = 1 /\ manual_confirmed /\ cookies_saved = 1

(***************************************************************************)
(* Properties of the selector-fallback loops and of product discovery      *)
(***************************************************************************)
\* Candidate i of loop l is usable on the page: it matches, and for an
\* actionable field it is visible and the action on it completes.
Usable(l, ans, i) ==
    IF l \in ActionLoops THEN ans[CandidatesOf(l)[i]] = "ready"
    ELSE IF l = "title" THEN ans[i] \notin {Absent, Raises}
    ELSE ans[CandidatesOf(l)[i]] = "some"

\* The query of candidate i raises in a loop that has no try/except of its own.
Breaks(l, ans, i) ==
    IF l = "title" THEN ans[i] = Raises
    ELSE l \in {"reviews", "page_reviews"}
         /\ ans[CandidatesOf(l)[i]] \in {"error", "timeout"}

\* C8: in every selector-fallback loop the candidates are tried in declared
\* order, the result comes from the lowest-indexed usable candidate, and once a
\* candidate is accepted no later candidate is queried or acted on, even when a
\* later one is usable too.
C8_FirstMatchWins ==
    r_out # NoResult =>
       LET n == Len(CandidatesOf(r_loop))
           q == r_out.queried
       IN  /\ q = [i \in 1..Len(q) |-> i]
           /\ r_out.found =>
                 /\ r_out.index \in 1..n
                 /\ Usable(r_loop, r_ans, r_out.index)
                 /\ \A j \in 1..(r_out.index - 1) : ~Usable(r_loop, r_ans, j)
                 /\ Len(q) = r_out.index
                 /\ \A a \in Range(r_out.acted) : a <= r_out.index
           /\ (~r_out.found /\ ~r_out.raised) =>
                 (Len(q) = n /\ \A j \in 1..n : ~Usable(r_loop, r_ans, j))
           /\ r_out.raised =>
                 /\ Len(q) >= 1 /\ Breaks(r_loop, r_ans, Len(q))
                 /\ \A j \in 1..(Len(q) - 1) : ~Usable(r_loop, r_ans, j)
           /\ (\E j \in 1..n : Usable(r_loop, r_ans, j)
                 /\ \A h \in 1..j : ~Breaks(r_loop, r_ans, h)) => r_out.found

C8_Witness ==
    /\ r_out # NoResult
    /\ r_loop = "results"
    /\ r_out.index = 1
    /\ Usable(r_loop, r_ans, 1) /\ Usable(r_loop, r_ans, 3)

HasAsin(card) == card.asin # None /\ card.asin # <<>>

\* C9: search_products never returns more than max_products Products; when
\* every matched container has an ASIN and extracts without error it returns
\* the first min(n, max_products) of them in encounter order, each with its
\* 1-based rank as position.
C9_AtMostMaxProducts ==
    /\ Len(products) <= max_products
    /\ (/\ spc = "done"
        /\ search_outcome = "ok"
        /\ \A i \in 1..Len(product_cards) :
              HasAsin(product_cards[i]) /\ ~Faulty(product_cards[i])) =>
          /\ Len(products) =
                (IF Len(product_cards) < max_products THEN Len(product_cards)
                                                     ELSE max_products)
          /\ \A i \in 1..Len(products) :
                /\ products[i].asin = product_cards[i].asin
                /\ products[i].position = i

C9_Witness ==
    /\ spc = "done" /\ search_outcome = "ok"
    /\ Len(product_cards) = 3 /\ max_products = 2
    /\ \A i \in 1..3 : HasAsin(product_cards[i]) /\ ~Faulty(product_cards[i])
    /\ Len(products) = 2

\* C10: a container without ASIN does not use up a max_products slot: with at
\* least max_products containers that have an ASIN, exactly max_products
\* Products are returned however many containers without ASIN precede them.
C10_SkippedCardKeepsSlot ==
    (/\ spc = "done"
     /\ search_outcome = "ok"
     /\ \A i \in 1..Len(product_cards) : ~Faulty(product_cards[i])
     /\ Cardinality({j \in 1..Len(product_cards) : HasAsin(product_cards[j])})
           >= max_products) =>
       Len(products) = max_products

\* The containers search_products visits: the first max_products of the match.
Visited == 1..(IF Len(product_cards) < max_products THEN Len(product_cards)
                                                     ELSE max_products)

\* C11: a container without ASIN, or one whose extraction raises, affects only
\* itself: once the containers are matched the call does not raise, and every
\* visited container that has an ASIN and extracts without error is in the
\* returned list with its own rank.
C11_CardFailureIsLocal ==
    (/\ spc \in {"done", "raised"}
     /\ \E i \in Visited : ~HasAsin(product_cards[i]) \/ Faulty(product_cards[i])) =>
       /\ spc = "done"
       /\ \A i \in Visited :
             (HasAsin(product_cards[i]) /\ ~Faulty(product_cards[i])) =>
                \E k \in 1..Len(products) :
                   /\ products[k].asin = product_cards[i].asin
                   /\ products[k].position = i

\* C12: when no result-container candidate matches, search_products returns an
\* empty list, and the caller can tell this outcome from a navigation timeout
\* of the same call: the two return values differ.
C12_NoResultsDistinguishable ==
    (spc = "done" /\ search_outcome = "no_results") =>
       /\ products = <<>>
       /\ products # ReturnValue("timeout", <<>>)

\* C13: no two Products of one returned list have the same asin.
C13_AsinUnique ==
    spc = "done" =>
       \A i, j \in 1..Len(products) :
          i # j => products[i].asin # products[j].asin

(***************************************************************************)
(* Properties of the review harvest of one product                         *)
(***************************************************************************)
RECURSIVE Emitted(_)
Emitted(log) == IF log = <<>> THEN 0 ELSE Head(log).emitted + Emitted(Tail(log))

UpTo(n) == [i \in 1..n |-> i]

\* C14: when no review-container candidate matches on page N the harvest of
\* the product stops: page N is the last page requested, and the returned list
\* holds the reviews of pages 1..N-1 and nothing else.  Such a page ends as
\* "no_reviews", or as "timeout" / "error" when its debug screenshot raises.
C14_StopsAtEmptyPage ==
    \A n \in 1..Len(page_log) :
       page_log[n].class \in {"no_reviews", "timeout", "error"} =>
          /\ hpc = "done"
          /\ n = Len(page_log)
          /\ fetched = UpTo(n)
          /\ Len(h_reviews) = Emitted(page_log)
          /\ \A k \in 1..Len(h_reviews) : h_reviews[k].origin[2] < n

C14_Witness ==
    /\ hpc = "done" /\ h_max_pages = 3
    /\ Len(page_log) = 2
    /\ page_log[1].class = "parsed" /\ page_log[1].matched = 3
    /\ page_log[2].class = "no_reviews"
    /\ Len(h_reviews) = 3
    /\ fetched = <<1, 2>>

\* C15: the pages requested for a product are 1, 2, ..., k in this order for
\* some k <= max_pages, each once.
C15_PagesInSequence ==
    /\ fetched = UpTo(Len(fetched))
    /\ Len(fetched) <= h_max_pages

C15_Witness ==
    /\ hpc = "done" /\ h_max_pages = 3
    /\ fetched = <<1, 2, 3>>
    /\ page_log[3].class = "parsed"

\* C16: when the URL after the navigation to page N is a login page, the
\* harvest of the product is aborted: no page after N is requested.
C16_RedirectAbortsHarvest ==
    \A n \in 1..Len(page_log) :
       page_log[n].redirect => Len(fetched) <= n

\* C17: a fetched page whose URL is a login page is classified as an invalid
\* session, never as "no reviews", also when no review container matches on it.
C17_RedirectIsSessionInvalid ==
    \A n \in 1..Len(page_log) :
       page_log[n].redirect => page_log[n].class = "session_invalid"

\* C18: every review element matched on a parsed page yields exactly one
\* Review, whichever of its fields resolve.
C18_OneReviewPerElement ==
    \A n \in 1..Len(page_log) :
       page_log[n].class = "parsed" => page_log[n].emitted = page_log[n].matched

(***************************************************************************)
(* Properties of run                                                       *)
(***************************************************************************)
\* Origin a comes before origin b: earlier product, or the same product and
\* an earlier page, or the same page and an earlier element.
Before(a, b) ==
    \/ a[1] < b[1]
    \/ a[1] = b[1] /\ a[2] < b[2]
    \/ a[1] = b[1] /\ a[2] = b[2] /\ a[3] < b[3]

IsCall(ev, name, k) == Len(ev) = 2 /\ ev[1] = name /\ ev[2] = k

\* C19: the accumulated reviews are ordered by product rank, then page, then
\* element; the harvest of product i+1 starts only after the harvest of
\* product i has returned.
C19_ReviewOrder ==
    /\ \A i, j \in 1..Len(self_reviews) :
          i < j => Before(self_reviews[i].origin, self_reviews[j].origin)
    /\ \A k \in 1..Len(run_events), i \in 2..MaxProductsArg :
          IsCall(run_events[k], "scrape_reviews", i) =>
             \E m \in 1..(k - 1) : IsCall(run_events[m], "returned", i - 1)

C19_Witness ==
    /\ rpc = "closed"
    /\ \E a, b, c, d \in 1..Len(self_reviews) :
          /\ self_reviews[a].origin = <<1, 1, 1>>
          /\ self_reviews[b].origin = <<1, 1, 2>>
          /\ self_reviews[c].origin = <<1, 2, 1>>
          /\ self_reviews[d].origin = <<2, 1, 1>>

\* C20: every Review of the accumulated list has a non-empty product_id that
\* is the asin of a Product search_products returned in this run.
C20_ReviewsBelongToProducts ==
    \A k \in 1..Len(self_reviews) :
       /\ Truthy(self_reviews[k].product_id)
       /\ \E p \in 1..Len(run_products) :
             run_products[p].asin = self_reviews[k].product_id

C20_Witness ==
    /\ rpc = "closed" /\ files # <<>>
    /\ \E a, b \in 1..Len(self_reviews) :
          self_reviews[a].product_id # self_reviews[b].product_id

Invoked(name) == \E k \in 1..Len(run_events) : run_events[k] = <<name>>

\* initialize returned: run went on to search_products.
Bootstrapped == Invoked("search_products")

\* The file `name` holds the whole accumulated list.
Holds(name) ==
    \E k \in 1..Len(files) :
       files[k] = [name |-> name, state |-> "complete", reviews |-> self_reviews]

\* What the two save calls left for a list that is not empty: both files
\* with the whole list when run returned; else run raised, and there is
\* nothing, a fragment of the first file, the first file alone, or the first
\* file and a fragment of the second.
Kept ==
    /\ Len(files) <= 2
    /\ \A k \in 1..Len(files) :
          /\ files[k].name = (IF k = 1 THEN "csv" ELSE "json")
          /\ files[k].state = "complete" => files[k].reviews = self_reviews
          /\ files[k].state = "partial" =>
                /\ k = Len(files)
                /\ Len(files[k].reviews) <= Len(self_reviews)
                /\ files[k].reviews = SubSeq(self_reviews, 1, Len(files[k].reviews))
    /\ run_result = "returned" => Holds("csv") /\ Holds("json")
    /\ ~(Holds("csv") /\ Holds("json")) => run_result = "raised"

\* The persistence step was reached with the accumulated list: save_to_csv
\* was called, save_to_json was called exactly when save_to_csv returned, and
\* the files are what these calls leave.
Persisted ==
    /\ Invoked("save_to_csv")
    /\ Invoked("save_to_json") <=> (self_reviews = <<>> \/ Holds("csv"))
    /\ IF self_reviews = <<>> THEN files = <<>> ELSE Kept

\* Both save calls were made and what they wrote is the accumulated list.
PersistedBoth ==
    /\ Invoked("save_to_csv") /\ Invoked("save_to_json")
    /\ IF self_reviews = <<>> THEN files = <<>> ELSE Holds("csv") /\ Holds("json")

\* C21 as stated: whenever initialize succeeds, run reaches the persistence
\* step (save_to_csv and save_to_json are called) with whatever was collected,
\* whatever discovery and harvesting gave, also when discovery returned no
\* product.
C21_AlwaysPersists ==
    /\ [](rpc = "closed" /\ Bootstrapped => PersistedBoth)
    /\ (Bootstrapped ~> Invoked("save_to_csv"))

\* C21 with the no-product exception alone: with at least one product both
\* save calls are made.  It does not hold either: when save_to_csv raises,
\* the exception leaves run before save_to_json is called.
C21_BothSavesUnlessNoProduct ==
    [](rpc = "closed" /\ Bootstrapped /\ run_products # <<>> => PersistedBoth)

\* C21 amended: when initialize succeeds and discovery returns at least one
\* product, run reaches the persistence step with whatever was collected, also
\* when every harvest failed: save_to_csv is called, and save_to_json when
\* save_to_csv has returned; a run that returns has written the whole list to
\* both files, and a save that raises ends the run and may leave a fragment.
\* When discovery returns no product or raises, run ends without calling
\* save_to_csv or save_to_json and writes no file.
C21_PersistsUnlessNoProduct ==
    /\ [](rpc = "closed" /\ Bootstrapped =>
            IF run_products # <<>>
            THEN Persisted /\ Len(harvests) = Len(run_products)
            ELSE /\ ~Invoked("save_to_csv") /\ ~Invoked("save_to_json")
                 /\ files = <<>>)
    /\ (Bootstrapped /\ run_products # <<>> ~> Invoked("save_to_csv"))

C21_Witness ==
    /\ rpc = "closed" /\ run_result = "returned"
    /\ Len(run_products) = 2
    /\ harvests[1].site = "timeout" /\ harvests[2].site = "two_pages"
    /\ Len(self_reviews) = 4
    /\ Holds("csv") /\ Holds("json")

\* The reviews of product h in the accumulated list.
ReviewsOf(h) == SelectSeq(self_reviews, LAMBDA r : r.origin[1] = h)

\* What pages 1..n of the site that harvest h met give for product h.
PagesGive(h, n) ==
    Concat([k \in 1..n |->
              PageResult(run_products[h], h, k, SitePage(harvests[h].site, k)).reviews])

\* C22: a timeout or other error on review page N of product i ends only the
\* harvest of product i: the reviews of pages 1..N-1 are in the result, no
\* exception leaves scrape_reviews, and run goes on to product i+1 and then to
\* the persistence step.
C22_PageErrorEndsOneHarvest ==
    \A h \in 1..Len(harvests) :
       LET N == Len(harvests[h].pages)
       IN  harvests[h].pages[N] \in {"timeout", "error"} =>
              /\ ReviewsOf(h) = PagesGive(h, N - 1)
              /\ rpc \in {"harvest", "save", "close", "closed"}
              /\ rpc = "harvest" => prod_idx = Len(harvests) + 1
              /\ rpc # "harvest" => Len(harvests) = Len(run_products)
              /\ run_result = "raised" => Invoked("save_to_csv")
              /\ rpc = "closed" => Invoked("save_to_csv")

C22_Witness ==
    /\ rpc = "closed" /\ Len(run_products) = 2
    /\ harvests[1].site = "drops" /\ harvests[1].pages = <<"parsed", "error">>
    /\ Len(ReviewsOf(1)) = 1
    /\ Len(ReviewsOf(2)) = 4
    /\ Len(files) = 2

(***************************************************************************)
(* Properties of the configuration                                         *)
(***************************************************************************)
ValidConfig(c) ==
    /\ Truthy(c.keyword)
    /\ c.max_products >= 1
    /\ c.max_pages >= 1
    /\ c.star_filter \in {None} \cup StarFilterKeys

\* The inputs that end the program: a value argparse rejects, a number below
\* 1 on the command line when the command-line values are used, and an empty
\* keyword typed at the prompt.
FatalInputs == {"usage", "cli_number", "typed_keyword"}

\* The prompts were shown: get_interactive_input is running or has returned.
Prompted == bad_inputs \cap {"no_keyword", "unread_number", "typed_keyword",
                             "typed_star_filter", "typed_number"} # {}

\* C23 as stated: a configuration returned to main has a non-empty keyword,
\* max_products and max_pages of at least 1 and a star filter that is None or
\* a key of STAR_FILTERS, and every missing or invalid input is fatal: when
\* the program has met one, no configuration is returned and no scraper is
\* created.
C23_InvalidInputIsFatal ==
    /\ cfg_pc \in {"returned", "created", "run"} =>
          ValidConfig(config) /\ exit_status = "running" /\ bad_inputs = {}
    /\ scraper => cfg_pc \in {"created", "run"}
    /\ cfg_pc = "exited" => ~scraper

\* C23 amended: a configuration returned to main has a non-empty keyword,
\* max_products and max_pages of at least 1 and a star filter that is None or
\* a key of STAR_FILTERS, and run is called with its two numbers.  The program
\* leaves through SystemExit only inside get_configuration, before the scraper
\* is created, and exactly for the fatal inputs: a value argparse rejects, a
\* command-line number below 1 when the command-line values are used, an
\* empty typed keyword.  The other missing or invalid inputs are not fatal: a
\* command line without keyword leads to the prompts, where the command-line
\* numbers are not read; an unknown typed star filter becomes None; a typed
\* number that is no integer or below 1 is asked again.
C23_ConfigValid ==
    /\ cfg_pc \in {"returned", "created", "run"} =>
          /\ ValidConfig(config) /\ exit_status = "running"
          /\ bad_inputs \cap FatalInputs = {}
    /\ cfg_pc = "run" =>
          /\ rpc = "initialize"
          /\ run_max_products = config.max_products
          /\ run_max_pages = config.max_pages
    /\ scraper => cfg_pc \in {"created", "run"}
    /\ cfg_pc = "exited" <=> exit_status # "running"
    /\ cfg_pc = "exited" =>
          /\ ~scraper /\ rpc = "idle"
          /\ exit_status = "usage" <=> "usage" \in bad_inputs
          /\ exit_status = "empty_keyword" <=> "typed_keyword" \in bad_inputs
          /\ exit_status \in {"bad_max_products", "bad_max_pages"} <=>
                "cli_number" \in bad_inputs
    /\ exit_status \in {"bad_max_products", "bad_max_pages"} =>
          (args.max_products <= 0 \/ args.max_pages <= 0)
    /\ (args # NoArgs /\ (args.max_products <= 0 \/ args.max_pages <= 0)) =>
          cfg_pc \in {"validate", "exited"}
    /\ bad_inputs \cap FatalInputs # {} =>
          /\ cfg_pc \in {"validate", "exited"}
          /\ cfg_pc = "validate" => Rejected(args) # "none"
    /\ Prompted =>
          /\ args = NoArgs
          /\ exit_status \in {"running", "empty_keyword"}
    /\ "typed_star_filter" \in bad_inputs =>
          /\ cfg_pc \in {"ask_products", "ask_pages", "ask_headless", "returned",
                          "created", "run"}
          /\ config.star_filter = None
    /\ "typed_number" \in bad_inputs =>
          cfg_pc \in {"ask_products", "ask_pages", "ask_headless", "returned",
                      "created", "run"}

\* A command line without keyword and with --max-pages -1; at the prompts an
\* unknown star filter, a wrong number, then 1_0 products: run is called.
C23_Witness ==
    /\ cfg_pc = "run" /\ scraper
    /\ bad_inputs = {"no_keyword", "unread_number", "typed_star_filter",
                     "typed_number"}
    /\ config.keyword = ConfigText.bag
    /\ config.star_filter = None
    /\ config.max_products = 10 /\ config.max_pages = 2
    /\ config.headless /\ config.cookies_file = ConfigText.my_cookies
    /\ run_max_products = 10 /\ run_max_pages = 2

(***************************************************************************)
(* Properties of the credentials                                           *)
(***************************************************************************)
\* C24: when automated login is requested the credentials are those of the
\* environment when both variables are set, otherwise those typed at the
\* prompt; when the prompt gives no email or no password the automaton is
\* not invoked and the run goes through the manual path; the cookie file
\* holds the cookies of the browser context and never a credential.
C24_CredentialSource ==
    /\ (requested /\ pc # "start") =>
          /\ cred_source = "env" <=> env_set
          /\ cred_source = "env" =>
                /\ auto_login
                /\ email = LoginText.EmailEnv /\ password = LoginText.PasswordEnv
          /\ (cred_source = "prompt" /\ auto_login) =>
                email = LoginText.EmailTyped /\ password = LoginText.PasswordTyped
          /\ ~auto_login =>
                /\ cred_source = "prompt"
                /\ email = None /\ password = None
                /\ calls = 0 /\ trace = <<>>
                /\ pc \in {"save", "post", "closed"} => manual_entries = 1
    /\ ~requested => (cred_source = "none" /\ calls = 0)
    /\ cookie_file.cookies \subseteq CookiePool
    /\ \A c \in cookie_file.cookies : c.value \notin {email, password}

C24_Witness ==
    /\ pc = "closed" /\ requested /\ ~auto_login
    /\ cred_source = "prompt" /\ ~env_set
    /\ calls = 0 /\ manual_entries = 1 /\ manual_confirmed
    /\ cookie_file = [state |-> "complete", cookies |-> CookiePool]

(***************************************************************************)
(* Properties of the text parsers                                          *)
(***************************************************************************)
RatingParsers == {"extract_rating", "extract_rating_from_stars"}

\* The value of the number pieces.
NumberValue ==
    [ n45 |-> [units |-> 4, frac |-> <<"5">>],
      n3 |-> [units |-> 3, frac |-> <<>>],
      n9 |-> [units |-> 9, frac |-> <<>>] ]

\* C25: both rating parsers return N for "N out of 5 stars", return N for
\* "N stars" and "N star", and return 0.0 for a text with neither pattern,
\* the empty text included.
C25_RatingParsers ==
    p_fn \in RatingParsers =>
       /\ \A n \in DOMAIN NumberValue :
             /\ p_in = <<n, "out_of_5", "stars">> => p_out = NumberValue[n]
             /\ p_in \in {<<n, "stars">>, <<n, "star">>} => p_out = NumberValue[n]
       /\ Range(p_in) \cap {"out_of_5", "stars", "star"} = {} => p_out = Zero

\* C26: the rating a parser returns lies between 0 and 5 inclusive, whatever
\* the text.
C26_RatingInRange ==
    p_fn \in RatingParsers =>
       /\ p_out.units >= 0
       /\ p_out.units < 5 \/ (p_out.units = 5 /\ p_out.frac = <<>>)

\* C27: the helpful-votes parser returns N for a text that begins "N people
\* found" or "N person found", returns 0 for the empty text and for "One
\* person found", and never returns a negative number.
C27_HelpfulVotes ==
    p_fn = "extract_helpful_votes" =>
       /\ \A n \in {"n3", "n9"} :
             (/\ Len(p_in) >= 2 /\ p_in[1] = n
              /\ p_in[2] \in {"people_found", "person_found"}) =>
                p_out = NumberValue[n].units
       /\ p_in \in {<<>>, <<"One", "person_found">>} => p_out = 0
       /\ p_out \in Nat

\* The text without its leading "Reviewed in ... on " preface, trimmed.
WithoutLeadingPreface(t) ==
    IF PrefaceEnd(t, 1) # 0 THEN Strip(SubSeq(t, PrefaceEnd(t, 1), Len(t)))
    ELSE Strip(t)

\* C28: the date normalizer removes a leading "Reviewed in ... on " preface
\* and nothing else, returns a text without such a leading preface unchanged
\* apart from trimming, and is idempotent.
C28_CleanDate ==
    p_fn = "clean_date" =>
       /\ p_out = WithoutLeadingPreface(TextOf(p_in))
       /\ clean_date(p_out) = p_out

(***************************************************************************)
(* Properties of run: termination and the close step                       *)
(***************************************************************************)
\* C29: every run terminates: a product's harvest fetches at most max_pages
\* pages, the product loop handles at most max_products products, and the
\* run eventually reaches its closed state.
C29_RunTerminates ==
    /\ [](/\ \A k \in 1..Len(harvests) : Len(harvests[k].pages) <= run_max_pages
          /\ Len(run_products) <= run_max_products
          /\ Len(harvests) <= run_max_products)
    /\ <>(rpc = "closed")

\* A closed run that harvested as many products and fetched as many pages as
\* its arguments allow.
C29_Witness ==
    /\ rpc = "closed"
    /\ run_max_products = MaxRunCards /\ Len(harvests) = MaxRunCards
    /\ run_max_pages = MaxPagesArg /\ Len(harvests[1].pages) = MaxPagesArg

CloseCalls == {k \in 1..Len(run_events) : run_events[k] = <<"close">>}

\* C30: run ends only through close(): close() is called exactly once and is
\* the last step, on a normal end, with no products, when initialize raises
\* and when a save raises; when initialize raises, neither search_products
\* nor scrape_reviews nor a save is called and run raises.
C30_CloseOnceAndLast ==
    /\ rpc # "closed" => CloseCalls = {}
    /\ run_result # "none" => rpc \in {"close", "closed"}
    /\ rpc = "closed" => CloseCalls = {Len(run_events)}
    /\ (rpc = "closed" /\ ~Invoked("search_products")) =>
          /\ run_events = <<<<"initialize">>, <<"close">>>>
          /\ run_result = "raised"
          /\ run_products = <<>> /\ harvests = <<>> /\ self_reviews = <<>>
          /\ files = <<>>
    /\ (rpc = "closed" /\ Invoked("save_to_csv") /\ ~Invoked("save_to_json")) =>
          run_result = "raised"

\* initialize raised after the browser was launched; close() was the only
\* other step.
C30_Witness ==
    /\ rpc = "closed" /\ browser
    /\ run_events = <<<<"initialize">>, <<"close">>>>
    /\ run_result = "raised"

(***************************************************************************)
(* Properties of the two candidate lists of a review page                  *)
(***************************************************************************)
\* C31: page N+1 of a product is requested only if page N gave at least one
\* Review: on a page where the container detection of scrape_reviews found a
\* match, _extract_reviews_from_page yields at least one Review.
C31_DetectedPageGivesReview ==
    /\ \A n \in 1..Len(page_log) :
          page_log[n].class \in {"parsed", "no_elements", "session_invalid"} =>
             page_log[n].emitted >= 1
    /\ \A n \in 1..Len(fetched) :
          n > 1 => page_log[n - 1].emitted >= 1

(***************************************************************************)
(* Properties of the elements and pages the automaton acts on              *)
(***************************************************************************)
ActionSteps == {"email", "continue", "password", "signin"}

\* C32: each of the four actions of an attempt (fill email, click continue,
\* fill password, click submit) is started on at most one candidate, also
\* when the action on the first visible candidate raises.
C32_OneElementPerAction ==
    (InAttempt /\ step \in ActionSteps) => Len(res.acted) <= 1

ErrorPageTitle(t) ==
    t # None /\ (Contains(Lower(t), LoginWord.sorry) \/ Contains(Lower(t), LoginWord.error))

SignInPageUrl(u) ==
    u # None /\ (Contains(u, LoginWord.signin) \/ Contains(u, LoginWord.ap))

\* C33: the email is filled only when the homepage title was no error page
\* and the URL read after the sign-in step contains "signin" or "ap/";
\* otherwise the attempt returns failure and neither the email nor the
\* password was filled.
C33_CredentialsOnlyOnSignInPage ==
    /\ (InAttempt /\ (Performed("fill_email") \/ Performed("fill_password"))) =>
          (~ErrorPageTitle(page_title) /\ SignInPageUrl(current_url))
    /\ (Performed("fill_email") \/ Performed("fill_password")) => calls = 1
    /\ (InAttempt /\ ErrorPageTitle(page_title)) =>
          /\ pc = "after_login" /\ verdict = "homepage_error" /\ ~login_successful
          /\ trace = <<"goto_home">>
    /\ (InAttempt /\ current_url # None /\ ~SignInPageUrl(current_url)) =>
          /\ pc = "after_login" /\ verdict = "not_signin_page" /\ ~login_successful
          /\ ~Performed("fill_email") /\ ~Performed("fill_password")

\* The email was filled on a page reached by the fallback navigation whose
\* URL contains "ap/" and not "signin".
C33_Witness ==
    /\ pc = "continue"
    /\ page_title = LoginText.Amazon /\ current_url = LoginText.ApOnly
    /\ trace = <<"goto_home", "goto_signin", "fill_email">>

====
